---- MODULE Spec2Model ----
(***************************************************************************)
(* Model of the retrieval-to-answer flow of rag_platform:                  *)
(*   retrieval/prompting.py  hits_to_chunks, stuff_context, prompts        *)
(*   retrieval/service.py    RetrievalService (language routing, answer)   *)
(*   retrieval/schemas.py    RAGAnswer                                     *)
(*                                                                         *)
(* A Python str is a sequence of characters.  A character is a one-letter  *)
(* TLA+ string; the labels "Answer:", "Sources:" (and their case variants) *)
(* are written as one element each and stand for that run of characters.   *)
(* Python's None is the value None below.                                  *)
(***************************************************************************)
EXTENDS Integers, Sequences, FiniteSets, TLC

VARIABLES
    n_hits,        \* hits_to_chunks: the hits argument
    n_max_chars,   \* hits_to_chunks: the max_chars argument
    n_ret,         \* hits_to_chunks: what the call returned
    r_query,       \* language router: the query argument
    r_ret,         \* language router: what the call returned and the chains it invoked
    b_text,        \* back-translation: the answer_text argument
    b_ret,         \* back-translation: what the call returned and the chains it invoked
    reasoning_enabled,  \* RetrievalService.reasoning_enabled
    a_pc,          \* answer(): where the call stands
    a_query,       \* answer(): the query argument
    a_max_chars,   \* answer(): the max_chars_per_chunk argument
    a_top_k,       \* answer(): the top_k argument
    a_query_en,    \* answer(): query_en
    a_user_lang,   \* answer(): user_lang
    a_chunk_dicts, \* answer(): chunk_dicts
    a_sources,     \* answer(): sources
    a_stuffed,     \* answer(): stuffed
    a_answer_text, \* answer(): answer_text
    a_reasoning_text,   \* answer(): reasoning_text
    a_calls,       \* answer(): the collaborator calls made so far, in order
    a_ret,         \* answer(): the RAGAnswer returned, or the exception raised
    c_files,       \* classify_files_heavy: the files argument
    c_heavy_size_mb,    \* classify_files_heavy: the heavy_size_mb argument
    c_pdf_heavy_pages,  \* classify_files_heavy: the pdf_heavy_pages argument
    c_ret,         \* classify_files_heavy: what the call returned, or raised
    i_pc,          \* ingest_directory: where the call stands
    i_files,       \* ingest_directory: files, as prepare_files returned them
    i_batch_size_normal,  \* settings.batch_size_normal
    i_batch_size_heavy,   \* settings.batch_size_heavy
    i_sleep_seconds,      \* ingest_directory: sleep_seconds
    i_normal_files,  \* ingest_directory: normal_files
    i_heavy_files,   \* ingest_directory: heavy_files
    i_heavy_reasons, \* ingest_directory: heavy_reasons
    i_next,        \* ingest_directory: the offset of the next batch in chunk_list
    i_all_results, \* ingest_directory: all_results
    i_failures,    \* ingest_directory: failures
    i_attempts,    \* ingest_directory: the batches handed to the ingestor so far
    i_ret,         \* ingest_directory: the IngestionReport returned, or the exception raised
    q_pc,          \* query_rag: where the request stands
    q_include_raw, \* query_rag: payload.include_raw
    q_include_stuffed_context,  \* query_rag: payload.include_stuffed_context
    q_ret,         \* query_rag: the RAGAnswer sent as the response
    h_milvus_uri,  \* ready: settings.milvus_uri
    h_embedding_endpoint,  \* ready: settings.embedding_endpoint
    h_ollama_base_url,     \* ready: the base URL handed to check_ollama
    h_net,         \* ready: what the network answers to each probe
    h_ret,         \* ready: the report returned, or the exception raised
    t_now,         \* DotNetAuthenticator: time.time(), in seconds
    t_cfg,         \* DotNetAuthenticator.cfg
    t_token,       \* DotNetAuthenticator._token
    t_exp_epoch,   \* DotNetAuthenticator._exp_epoch
    t_ret,         \* DotNetAuthenticator: the last call and how it ended
    e_pc,          \* run_and_save: where the call stands
    e_testset,     \* run_and_save: the rows of the file at testset_path
    e_resume,      \* run_and_save: resume
    e_exists,      \* run_and_save: os.path.exists(output_path)
    e_output,      \* run_and_save: the rows of the file at output_path
    e_start_output,  \* run_and_save: those rows when the call started
    e_processed,   \* run_and_save: processed_questions
    e_next,        \* run_and_save: how many test-set rows the loop has passed
    e_calls,       \* run_and_save: the questions handed to answer(), in order
    e_runs,        \* run_and_save: how many times it has been called
    d_response,    \* _generate: resp.get("assistantResponse")
    d_stop,        \* _generate: the stop argument
    d_ret          \* _generate: the AIMessage of the ChatResult returned

chunkVars == <<n_hits, n_max_chars, n_ret>>
routerVars == <<r_query, r_ret>>
backVars == <<b_text, b_ret>>
answerVars == <<reasoning_enabled, a_pc, a_query, a_max_chars, a_top_k, a_query_en,
                a_user_lang, a_chunk_dicts, a_sources, a_stuffed,
                a_answer_text, a_reasoning_text, a_calls, a_ret>>
classifyVars == <<c_files, c_heavy_size_mb, c_pdf_heavy_pages, c_ret>>
ingestVars == <<i_pc, i_files, i_batch_size_normal, i_batch_size_heavy,
                i_sleep_seconds, i_normal_files, i_heavy_files, i_heavy_reasons, i_next,
                i_all_results, i_failures, i_attempts, i_ret>>
apiVars == <<q_pc, q_include_raw, q_include_stuffed_context, q_ret>>
healthVars == <<h_milvus_uri, h_embedding_endpoint, h_ollama_base_url, h_net,
                h_ret>>
authVars == <<t_now, t_cfg, t_token, t_exp_epoch, t_ret>>
evalVars == <<e_pc, e_testset, e_resume, e_exists, e_output, e_start_output,
              e_processed, e_next, e_calls, e_runs>>
chatVars == <<d_response, d_stop, d_ret>>
restVars == <<apiVars, healthVars, authVars, evalVars, chatVars>>
vars == <<chunkVars, routerVars, backVars, answerVars, classifyVars,
          ingestVars, restVars>>

----------------------------------------------------------------------------
(* Bounds of the model *)

MaxTextLen == 2
MaxHits == 2
MaxRetrieved == 3
MaxQueryLen == 2
MaxBodyLen == 2
MaxTailLen == 3

----------------------------------------------------------------------------
(* Python values and str methods *)

None == <<"None">>
Missing == "<missing>"

IsSpace(c) == c \in {" ", "\n"}

Min(a, b) == IF a <= b THEN a ELSE b
Max(a, b) == IF a >= b THEN a ELSE b

\* str.lstrip()
LStrip(s) ==
    IF \A i \in 1..Len(s) : IsSpace(s[i]) THEN <<>>
    ELSE LET k == CHOOSE i \in 1..Len(s) :
                      ~IsSpace(s[i]) /\ \A j \in 1..(i - 1) : IsSpace(s[j])
         IN  SubSeq(s, k, Len(s))

\* str.rstrip()
RStrip(s) ==
    IF \A i \in 1..Len(s) : IsSpace(s[i]) THEN <<>>
    ELSE LET k == CHOOSE i \in 1..Len(s) :
                      ~IsSpace(s[i]) /\ \A j \in (i + 1)..Len(s) : IsSpace(s[j])
         IN  SubSeq(s, 1, k)

\* str.strip()
Strip(s) == LStrip(RStrip(s))

\* s[:n], Python's slice: a negative n counts from the end
SliceTo(s, n) ==
    IF n >= 0 THEN SubSeq(s, 1, Min(n, Len(s)))
    ELSE SubSeq(s, 1, Max(0, Len(s) + n))

\* s[n:] for 0 <= n <= len(s)
SliceFrom(s, n) == SubSeq(s, n + 1, Len(s))

\* x or y, for a str or None x
OrElse(x, y) == IF x = None \/ x = <<>> THEN y ELSE x

----------------------------------------------------------------------------
(* retrieval/prompting.py: hits_to_chunks *)

\* ent.get("text") or "", stripped
HitText(h) == Strip(OrElse(h.text, <<>>))

\* src.get("source_name", "unknown_source")
HitSourceName(h) ==
    IF h.source_name = Missing THEN "unknown_source" ELSE h.source_name

\* a cut one character late
ChunkText_OffByOne(text, max_chars) == SliceTo(text, max_chars + 1)

\* text[:max_chars]
ChunkText(text, max_chars) == SliceTo(text, max_chars)

MakeChunk(h, max_chars) ==
    [text |-> ChunkText(HitText(h), max_chars),
     source_name |-> HitSourceName(h),
     page_number |-> h.page_number,
     score |-> h.distance,
     raw |-> h]

\* sources.append without the "not in seen" test
AddSource_NoDedup(acc, source_name) ==
    [acc EXCEPT !.seen = @ \cup {source_name},
                !.sources = Append(@, source_name)]

\* if source_name not in seen: seen.add(source_name); sources.append(source_name)
AddSource(acc, source_name) ==
    IF source_name \notin acc.seen
    THEN [acc EXCEPT !.seen = @ \cup {source_name},
                     !.sources = Append(@, source_name)]
    ELSE acc

\* the loop body without the "if not text: continue" test
HitStep_NoSkip(acc, h, max_chars) ==
    LET a == AddSource(acc, HitSourceName(h))
    IN  [a EXCEPT !.chunks = Append(@, MakeChunk(h, max_chars))]

\* one iteration of "for h in hits"
HitStep(acc, h, max_chars) ==
    IF HitText(h) = <<>> THEN acc
    ELSE LET a == AddSource(acc, HitSourceName(h))
         IN  [a EXCEPT !.chunks = Append(@, MakeChunk(h, max_chars))]

RECURSIVE HitLoop(_, _, _)
HitLoop(acc, hits, max_chars) ==
    IF hits = <<>> THEN acc
    ELSE HitLoop(HitStep(acc, Head(hits), max_chars), Tail(hits), max_chars)

\* def hits_to_chunks(hits, *, max_chars: int = 1200)
DefaultMaxChars == 1200

hits_to_chunks(hits, max_chars) ==
    LET acc == HitLoop([chunks |-> <<>>, sources |-> <<>>, seen |-> {}],
                       hits, max_chars)
    IN  [chunks |-> acc.chunks, sources |-> acc.sources]

----------------------------------------------------------------------------
(* Character classes.  The Maltese letters are written by name: "hbar" is  *)
(* h with stroke, "cdot", "gdot", "zdot" are c, g, z with dot above, and   *)
(* the capitals are "HBAR", "CDOT", "GDOT", "ZDOT"; each is one character. *)

\* str.lower(), on the characters the model uses
LowerChar(c) ==
    CASE c = "M" -> "m"
      [] c = "P" -> "p"
      [] c = "D" -> "d"
      [] c = "F" -> "f"
      [] c = "T" -> "t"
      [] c = "G" -> "g"
      [] c = "HBAR" -> "hbar"
      [] c = "CDOT" -> "cdot"
      [] c = "GDOT" -> "gdot"
      [] c = "ZDOT" -> "zdot"
      [] c \in {"Answer:", "ANSWER:"} -> "answer:"
      [] c \in {"Sources:", "SOURCES:"} -> "sources:"
      [] OTHER -> c

Lower(s) == [i \in 1..Len(s) |-> LowerChar(s[i])]

\* the element ends in ':' (a label)
IsLabel(c) == LowerChar(c) \in {"answer:", "sources:"}

\* \w matches the element's first / last character
FirstIsWord(c) == ~IsSpace(c) /\ c # "."
LastIsWord(c) == FirstIsWord(c) /\ ~IsLabel(c)

\* str.startswith
StartsWith(s, prefix) ==
    Len(s) >= Len(prefix) /\ SubSeq(s, 1, Len(prefix)) = prefix

\* sub in s
Contains(s, sub) ==
    \E i \in 0..(Len(s) - Len(sub)) : SubSeq(s, i + 1, i + Len(sub)) = sub

----------------------------------------------------------------------------
(* retrieval/prompting.py: the prompts and the chains built on them *)

MALTESE_LANGUAGE == "Maltese"
MALTESE_CODE == "mt"
ENGLISH_LANGUAGE == "English"
ENGLISH_CODE == "en"

\* the input variables of each ChatPromptTemplate
DETECT_LANG_PROMPT == {"text"}
GENERIC_TRANSLATE_PROMPT ==
    {"SOURCE_LANG", "SOURCE_CODE", "TARGET_LANG", "TARGET_CODE", "TEXT"}
PROMPT == {"context", "question"}

\* chain.invoke(input) for chain = prompt | model | ...: the prompt raises
\* KeyError when input lacks one of its variables, before the model is called;
\* otherwise the model is called once and out is what it answers
Invoke(chain, prompt, input, out) ==
    IF prompt \subseteq DOMAIN input
    THEN [raised |-> "none", out |-> out,
          calls |-> <<[chain |-> chain, input |-> input, out |-> out]>>]
    ELSE [raised |-> "KeyError", out |-> None, calls |-> <<>>]

----------------------------------------------------------------------------
(* retrieval/service.py: language detection and query routing *)

MalteseMarkers ==
    {<<"g", "hbar">>, <<"cdot">>, <<"gdot">>, <<"hbar">>, <<"zdot">>,
     <<"CDOT">>, <<"GDOT">>, <<"HBAR">>, <<"ZDOT">>, <<"G", "HBAR">>}

\* the heuristic without the capital letters
is_maltese_heuristic_LowerOnly(text) ==
    \E m \in {<<"g", "hbar">>, <<"cdot">>, <<"gdot">>, <<"hbar">>, <<"zdot">>} :
        Contains(text, m)

is_maltese_heuristic(text) == \E m \in MalteseMarkers : Contains(text, m)

\* _detect_language(query); det_out is what the detector model answers if asked
detect_language(query, det_out) ==
    IF is_maltese_heuristic(query)
    THEN [raised |-> "none", ret |-> "mt", calls |-> <<>>]
    ELSE LET r == Invoke("detect_lang", DETECT_LANG_PROMPT,
                         [text |-> query], det_out)
         IN  IF r.raised # "none"
             THEN [raised |-> r.raised, ret |-> "none", calls |-> r.calls]
             ELSE [raised |-> "none",
                   ret |-> IF StartsWith(Lower(Strip(r.out)), <<"m", "t">>)
                           THEN "mt" ELSE "en",
                   calls |-> r.calls]

\* the translation asked for in the wrong direction
ToEnglishInput_Swapped(query) ==
    [TEXT |-> query,
     SOURCE_LANG |-> ENGLISH_LANGUAGE, SOURCE_CODE |-> ENGLISH_CODE,
     TARGET_LANG |-> MALTESE_LANGUAGE, TARGET_CODE |-> MALTESE_CODE]

\* the translate_text input of _query_for_retrieval
ToEnglishInput(query) ==
    [TEXT |-> query,
     SOURCE_LANG |-> MALTESE_LANGUAGE, SOURCE_CODE |-> MALTESE_CODE,
     TARGET_LANG |-> ENGLISH_LANGUAGE, TARGET_CODE |-> ENGLISH_CODE]

\* _query_for_retrieval(query); tr_out is what the translator answers if asked
query_for_retrieval(query, det_out, tr_out) ==
    LET d == detect_language(query, det_out)
    IN  IF d.raised # "none"
        THEN [raised |-> d.raised, query_en |-> None, user_lang |-> "none",
              calls |-> d.calls]
        ELSE IF d.ret = "mt"
        THEN LET t == Invoke("translate_text", GENERIC_TRANSLATE_PROMPT,
                             ToEnglishInput(query), tr_out)
             IN  IF t.raised # "none"
                 THEN [raised |-> t.raised, query_en |-> None,
                       user_lang |-> "none", calls |-> d.calls \o t.calls]
                 ELSE [raised |-> "none", query_en |-> Strip(t.out),
                       user_lang |-> "mt", calls |-> d.calls \o t.calls]
        ELSE [raised |-> "none", query_en |-> query, user_lang |-> "en",
              calls |-> d.calls]

----------------------------------------------------------------------------
(* retrieval/service.py: back-translation of the answer *)

\* re.search(r"(?is)\bSources:\b", text): the 0-based start of the first match,
\* or -1.  \b before the S needs a non-word character (or the start) in front;
\* \b after the colon needs a word character right after it.
IsSourcesMatch(text, i) ==
    /\ LowerChar(text[i]) = "sources:"
    /\ (i = 1 \/ ~LastIsWord(text[i - 1]))
    /\ i < Len(text)
    /\ FirstIsWord(text[i + 1])

SearchSources(text) ==
    IF \E i \in 1..Len(text) : IsSourcesMatch(text, i)
    THEN (CHOOSE i \in 1..Len(text) :
              IsSourcesMatch(text, i)
              /\ \A j \in 1..(i - 1) : ~IsSourcesMatch(text, j)) - 1
    ELSE -1

\* answer_part and sources_part
SplitAnswer(answer_text) ==
    LET m == SearchSources(answer_text)
    IN  IF m >= 0
        THEN [answer_part |-> RStrip(SliceTo(answer_text, m)),
              sources_part |-> LStrip(SliceFrom(answer_text, m))]
        ELSE [answer_part |-> RStrip(answer_text), sources_part |-> <<>>]

\* answer_part.strip().lower().startswith("answer:")
HasAnswerLabel(answer_part) ==
    StartsWith(Lower(Strip(answer_part)), <<"answer:">>)

\* answer_part.split(":", 1)[1]: what follows the first colon
AfterFirstColon(s) ==
    LET k == CHOOSE i \in 1..Len(s) :
                 IsLabel(s[i]) /\ \A j \in 1..(i - 1) : ~IsLabel(s[j])
    IN  SliceFrom(s, k)

\* the translate_text input of the labelled branch
ToMalteseInput(body) ==
    [TEXT |-> body,
     SOURCE_LANG |-> ENGLISH_LANGUAGE, SOURCE_CODE |-> ENGLISH_CODE,
     TARGET_LANG |-> MALTESE_LANGUAGE, TARGET_CODE |-> MALTESE_CODE]

\* the translate_text input of the fallback branch
FallbackInput(answer_part) == [text |-> answer_part]

\* (mt_answer_part + ("\n\n" + sources_part if sources_part else "")).strip()
Reattach(mt_answer_part, sources_part) ==
    Strip(mt_answer_part
          \o (IF sources_part # <<>> THEN <<"\n", "\n">> \o sources_part
              ELSE <<>>))

\* _translate_answer_line_to_maltese(answer_text); tr_out is what the
\* translator answers if asked
translate_answer_line_to_maltese(answer_text, tr_out) ==
    LET sp == SplitAnswer(answer_text)
        t == IF HasAnswerLabel(sp.answer_part)
             THEN Invoke("translate_text", GENERIC_TRANSLATE_PROMPT,
                         ToMalteseInput(Strip(AfterFirstColon(sp.answer_part))),
                         tr_out)
             ELSE Invoke("translate_text", GENERIC_TRANSLATE_PROMPT,
                         FallbackInput(sp.answer_part), tr_out)
        mt_answer_part ==
             IF HasAnswerLabel(sp.answer_part)
             THEN <<"Answer:", " ">> \o Strip(t.out)
             ELSE Strip(t.out)
    IN  IF t.raised # "none"
        THEN [raised |-> t.raised, ret |-> None, calls |-> t.calls]
        ELSE [raised |-> "none",
              ret |-> Reattach(mt_answer_part, sp.sources_part),
              calls |-> t.calls]

----------------------------------------------------------------------------
(* retrieval/prompting.py: stuff_context *)

ChunkHeader(c) ==
    <<"[source: ", c.source_name>>
    \o (IF c.page_number # "None" THEN <<", page: ", c.page_number, "]">>
        ELSE <<"]">>)

\* f"{header}\n{c['text']}"
ChunkPart(c) == ChunkHeader(c) \o <<"\n">> \o c.text

\* a separator with single newlines
ContextSeparator_Short == <<"\n", "---", "\n">>

\* "\n\n---\n\n"
ContextSeparator == <<"\n", "\n", "---", "\n", "\n">>

RECURSIVE Join(_, _)
Join(sep, parts) ==
    IF parts = <<>> THEN <<>>
    ELSE IF Len(parts) = 1 THEN parts[1]
    ELSE parts[1] \o sep \o Join(sep, Tail(parts))

stuff_context(chunks) ==
    Join(ContextSeparator, [i \in 1..Len(chunks) |-> ChunkPart(chunks[i])])

----------------------------------------------------------------------------
(* retrieval/schemas.py and retrieval/service.py: answer() *)

NoContextAnswer ==
    <<"I cannot answer this from the provided context.">>

\* a value that is neither a str nor None
NonStr == <<"non-str">>
IsStr(x) == x # None /\ x # NonStr

\* reasoning_text as answer() normalises it from the AIMessage
NormalizeReasoning(reasoning_content) ==
    IF IsStr(reasoning_content)
    THEN (IF Strip(reasoning_content) = <<>> THEN None
          ELSE Strip(reasoning_content))
    ELSE None

\* pydantic's validation of RAGAnswer(...): query, answer and reasoning are
\* declared str, and None is not a str
RAGAnswerValid(query, answer, reasoning) ==
    IsStr(query) /\ IsStr(answer) /\ IsStr(reasoning)

RetrievalResult(query, stuffed, chunk_dicts) ==
    [query |-> query, stuffed_context |-> stuffed, chunks |-> chunk_dicts]

RAGAnswer(query, answer, reasoning, sources, retrieval) ==
    IF RAGAnswerValid(query, answer, reasoning)
    THEN [raised |-> "none",
          value |-> [query |-> query, answer |-> answer,
                     reasoning |-> reasoning, sources |-> sources,
                     retrieval |-> retrieval]]
    ELSE [raised |-> "ValidationError", value |-> None]

\* the translated query reported as the query
ReportedQuery_Translated(query, query_en) == query_en

\* query=query, in RetrievalResult(...) and in RAGAnswer(...): the original query
ReportedQuery(query, query_en) == query

\* def answer(self, query, *, top_k: int = 3, max_chars_per_chunk: int = 1200)
DefaultTopK == 3

\* the retriever asked for the default number of hits whatever the caller's
RetrieveCall_DefaultTopK(query_en, top_k, hits) ==
    [chain |-> "retrieve",
     input |-> [queries |-> <<query_en>>, top_k |-> DefaultTopK],
     out |-> hits]

\* hits = self.retriever.retrieve([query_en], top_k=top_k)[0]
RetrieveCall(query_en, top_k, hits) ==
    [chain |-> "retrieve", input |-> [queries |-> <<query_en>>, top_k |-> top_k],
     out |-> hits]

GenerateInput(query_en, stuffed) == [question |-> query_en, context |-> stuffed]

----------------------------------------------------------------------------
(* The files on disk.  A path is the sequence of its characters, the stem   *)
(* written as one element.  stat_ok: Path.stat() succeeds; st_size: bytes;  *)
(* pdf_ok: PdfReader can read the file; pages: len(reader.pages).           *)

\* 1024 * 1024, the bytes of one MB
BytesPerMB == 1024 * 1024

OnDisk(size, pdf_ok, pages) ==
    [stat_ok |-> TRUE, st_size |-> size, pdf_ok |-> pdf_ok, pages |-> pages]

Vanished == [stat_ok |-> FALSE, st_size |-> 0, pdf_ok |-> FALSE, pages |-> 0]

BigTxt == <<"big", ".", "t", "x", "t">>
BigPdf == <<"big", ".", "p", "d", "f">>
EdgeDocx == <<"edge", ".", "d", "o", "c", "x">>
UnderTxt == <<"under", ".", "t", "x", "t">>
LongPdf == <<"long", ".", "p", "d", "f">>
ShortPdf == <<"short", ".", "P", "D", "F">>
BadPdf == <<"bad", ".", "p", "d", "f">>
GoneTxt == <<"gone", ".", "t", "x", "t">>

\* the files the classifier is tried on
ClassifiedPaths ==
    {BigTxt, BigPdf, EdgeDocx, UnderTxt, LongPdf, ShortPdf, BadPdf, GoneTxt}

\* the files of a directory to ingest: "n1.txt", "n2.txt", ... are small
\* text files, "h1.pdf", ... are PDFs of 80 pages
NormalFile(k) == <<"n", ToString(k), ".", "t", "x", "t">>
HeavyFile(k) == <<"h", ToString(k), ".", "p", "d", "f">>

FileSystem(f) ==
    CASE f = BigTxt -> OnDisk(60 * BytesPerMB, FALSE, 0)
      [] f = BigPdf -> OnDisk(60 * BytesPerMB, FALSE, 0)
      [] f = EdgeDocx -> OnDisk(50 * BytesPerMB, FALSE, 0)
      [] f = UnderTxt -> OnDisk(50 * BytesPerMB - 1, FALSE, 0)
      [] f = LongPdf -> OnDisk(3 * 131072, TRUE, 80)
      [] f = ShortPdf -> OnDisk(131072, TRUE, 79)
      [] f = BadPdf -> OnDisk(BytesPerMB, FALSE, 0)
      [] f = GoneTxt -> Vanished
      [] f[1] = "h" -> OnDisk(131072, TRUE, 80)
      [] OTHER -> OnDisk(131072, FALSE, 0)

----------------------------------------------------------------------------
(* ingestion/heavy_router.py *)

\* a Python number with a whole value: an int, or a float
PyInt(n) == [kind |-> "int", whole |-> n]
PyFloat(n) == [kind |-> "float", whole |-> n]

\* str() of a number, as an f-string writes it: 50 is "50", 50.0 is "50.0"
FormatNumber(x) ==
    IF x.kind = "int" THEN <<ToString(x.whole)>>
    ELSE <<ToString(x.whole), ".0">>

\* Path(f).suffix: from the last dot of the name, unless the name starts
\* with it
PathSuffix(f) ==
    LET dots == {i \in 1..Len(f) : f[i] = "."}
    IN  IF dots = {} THEN <<>>
        ELSE LET i == CHOOSE d \in dots : \A e \in dots : e <= d
             IN  IF i = 1 THEN <<>> ELSE SubSeq(f, i, Len(f))

\* str.lstrip(".")
RECURSIVE LStripDots(_)
LStripDots(s) ==
    IF s # <<>> /\ Head(s) = "." THEN LStripDots(Tail(s)) ELSE s

\* ext = p.suffix.lower().lstrip(".")
FileExt(f) == LStripDots(Lower(PathSuffix(f)))

\* file_size_mb(p): st_size / (1024 * 1024), kept exact as the byte count;
\* Path.stat() raises OSError for a file that is not there
file_size_mb(f) ==
    IF FileSystem(f).stat_ok
    THEN [raised |-> "none", bytes |-> FileSystem(f).st_size]
    ELSE [raised |-> "OSError", bytes |-> 0]

\* 10**9, the page count of a PDF that cannot be read
UnreadablePages == 10^9

\* pdf_page_count(p)
pdf_page_count(f) ==
    IF FileSystem(f).pdf_ok THEN FileSystem(f).pages ELSE UnreadablePages

\* round(size, 2), in hundredths of a MB: to the nearest hundredth, a tie
\* to the even one
Round2(bytes) ==
    LET whole == bytes \div BytesPerMB
        x == 100 * (bytes % BytesPerMB)
        q == x \div BytesPerMB
        rest == x % BytesPerMB
        up == \/ 2 * rest > BytesPerMB
              \/ 2 * rest = BytesPerMB /\ q % 2 = 1
    IN  100 * whole + (IF up THEN q + 1 ELSE q)

\* the size rule with > for >=
SizeIsHeavy_Strict(size, heavy_size_mb) ==
    size.bytes > heavy_size_mb.whole * BytesPerMB

\* size >= heavy_size_mb
SizeIsHeavy(size, heavy_size_mb) ==
    size.bytes >= heavy_size_mb.whole * BytesPerMB

\* {"file": f, "reason": f"size_mb>={heavy_size_mb}", "size_mb": round(size, 2)}
SizeReason(f, size, heavy_size_mb) ==
    [file |-> f,
     reason |-> <<"size_mb>=">> \o FormatNumber(heavy_size_mb),
     size_mb |-> Round2(size.bytes)]

\* the page-count reason without its "pages" entry
PageReason_NoPages(f, size, pdf_heavy_pages, pages) ==
    [file |-> f,
     reason |-> <<"pdf_pages>=", ToString(pdf_heavy_pages)>>,
     size_mb |-> Round2(size.bytes)]

\* {"file": f, "reason": f"pdf_pages>={pdf_heavy_pages}",
\*  "size_mb": round(size, 2), "pages": pages}
PageReason(f, size, pdf_heavy_pages, pages) ==
    [file |-> f,
     reason |-> <<"pdf_pages>=", ToString(pdf_heavy_pages)>>,
     size_mb |-> Round2(size.bytes),
     pages |-> pages]

\* heavy.append(f); reasons.append(reason)
AppendHeavy(acc, f, reason) ==
    [acc EXCEPT !.heavy = Append(@, f), !.reasons = Append(@, reason)]

\* the file dropped instead of appended
AppendNormal_Drop(acc, f) == acc

\* normal.append(f)
AppendNormal(acc, f) == [acc EXCEPT !.normal = Append(@, f)]

\* one iteration of "for f in files"; opened lists the files whose page
\* count was read
ClassifyStep(acc, f, heavy_size_mb, pdf_heavy_pages) ==
    LET size == file_size_mb(f)
    IN  IF acc.raised # "none" THEN acc
        ELSE IF size.raised # "none" THEN [acc EXCEPT !.raised = size.raised]
        ELSE IF SizeIsHeavy(size, heavy_size_mb)
        THEN AppendHeavy(acc, f, SizeReason(f, size, heavy_size_mb))
        ELSE IF FileExt(f) = <<"p", "d", "f">>
        THEN LET pages == pdf_page_count(f)
                 a == [acc EXCEPT !.opened = Append(@, f)]
             IN  IF pages >= pdf_heavy_pages
                 THEN AppendHeavy(a, f, PageReason(f, size, pdf_heavy_pages, pages))
                 ELSE AppendNormal(a, f)
        ELSE AppendNormal(acc, f)

RECURSIVE ClassifyLoop(_, _, _, _)
ClassifyLoop(acc, files, heavy_size_mb, pdf_heavy_pages) ==
    IF files = <<>> THEN acc
    ELSE ClassifyLoop(ClassifyStep(acc, Head(files), heavy_size_mb,
                                   pdf_heavy_pages),
                      Tail(files), heavy_size_mb, pdf_heavy_pages)

\* def classify_files_heavy(files, *, heavy_size_mb: float = 50.0,
\*                          pdf_heavy_pages: int = 80)
DefaultHeavySizeMb == PyFloat(50)
DefaultPdfHeavyPages == 80

\* an exception leaves the caller without the lists
classify_files_heavy(files, heavy_size_mb, pdf_heavy_pages) ==
    LET acc == ClassifyLoop([raised |-> "none", normal |-> <<>>,
                             heavy |-> <<>>, reasons |-> <<>>,
                             opened |-> <<>>],
                            files, heavy_size_mb, pdf_heavy_pages)
    IN  IF acc.raised = "none" THEN acc
        ELSE [raised |-> acc.raised, normal |-> <<>>, heavy |-> <<>>,
              reasons |-> <<>>, opened |-> acc.opened]

----------------------------------------------------------------------------
(* config/settings.py: the ingestion settings *)

DefaultBatchSizeNormal == 5
DefaultBatchSizeHeavy == 1
DefaultSleepSeconds == 2

----------------------------------------------------------------------------
(* ingestion/service.py: chunk_list and the batch loops of ingest_directory *)

\* chunk_list(items, batch_size), drained: range(0, len(items), batch_size)
\* raises ValueError for a step of 0 and is empty for a negative step
chunk_list(items, batch_size) ==
    IF batch_size = 0 THEN [raised |-> "ValueError", batches |-> <<>>]
    ELSE IF batch_size < 0 THEN [raised |-> "none", batches |-> <<>>]
    ELSE LET n == Len(items)
             count == (n + batch_size - 1) \div batch_size
         IN  [raised |-> "none",
              batches |-> [k \in 1..count |->
                              SubSeq(items, (k - 1) * batch_size + 1,
                                     Min(k * batch_size, n))]]

\* batch[:10] in the failure record of a batch that raised
FileFieldLimit == 10

\* reason="exception_normal_batch" / "exception_heavy_batch"
BatchExceptionReason(heavy_mode) ==
    IF heavy_mode THEN "exception_heavy_batch" ELSE "exception_normal_batch"

\* record_failure(file=";".join(batch[:10]), reason=..., details={"error":
\* repr(e), "batch": batch_idx, "files_count": len(batch)})
BatchFailure(batch, batch_idx, heavy_mode, error) ==
    [file |-> Join(<<";">>, SliceTo(batch, FileFieldLimit)),
     reason |-> BatchExceptionReason(heavy_mode),
     details |-> [error |-> error, batch |-> batch_idx,
                  files_count |-> Len(batch)]]

\* str(bf.get("file", ""))
FailedFile(bf) == IF "file" \in DOMAIN bf THEN bf.file ELSE <<>>

\* record_failure(file=str(bf.get("file", "")), reason="nv_ingest_failure",
\* details=bf), for each bf of batch_failures
ItemFailures(batch_failures) ==
    [k \in 1..Len(batch_failures) |->
        [file |-> FailedFile(batch_failures[k]),
         reason |-> "nv_ingest_failure",
         details |-> batch_failures[k]]]

\* the log entries: a batch handed to an ingestor built with heavy_mode, with
\* whether ingestor.ingest raised; and a sleep
IngestEvent(heavy_mode, batch, raised) ==
    [event |-> "ingest", heavy_mode |-> heavy_mode, files |-> batch,
     raised |-> raised]

SleepEvent ==
    [event |-> "sleep", heavy_mode |-> FALSE, files |-> <<>>, raised |-> FALSE]

\* if sleep_seconds > 0: time.sleep(sleep_seconds)
MaybeSleep(sleep_seconds) == IF sleep_seconds > 0 THEN <<SleepEvent>> ELSE <<>>

\* IngestionReport(total_files=..., ..., heavy_reasons=heavy_reasons)
IngestionReport(files, normal, heavy, all_results, failures, heavy_reasons) ==
    [total_files |-> Len(files), normal_files |-> Len(normal),
     heavy_files |-> Len(heavy), results_count |-> Len(all_results),
     failures |-> failures, heavy_reasons |-> heavy_reasons]

----------------------------------------------------------------------------
(* Inputs *)

SeqsUpTo(S, n) == UNION {[1..k -> S] : k \in 0..n}

Letters == <<"a", "b", "c", "d", "e", "f">>

\* entity texts: up to MaxTextLen letters, bare or with a blank on both sides
Cores == {SubSeq(Letters, 1, n) : n \in 0..MaxTextLen}
Pads == {<<>>, <<" ">>}
Texts == {p \o c \o p : p \in Pads, c \in Cores} \cup {None}

Provenances ==
    {[source_name |-> "doc_a", page_number |-> "1", distance |-> "0.9"],
     [source_name |-> "doc_b", page_number |-> "None", distance |-> "0.7"],
     [source_name |-> Missing, page_number |-> "None", distance |-> "None"]}

Hit(t, p) ==
    [text |-> t, source_name |-> p.source_name,
     page_number |-> p.page_number, distance |-> p.distance]

Hits == {Hit(t, p) : t \in Texts, p \in Provenances}
HitLists == SeqsUpTo(Hits, MaxHits)
MaxCharsValues == (-1)..(MaxTextLen + 1)

\* queries: every string of up to MaxQueryLen characters
QueryAlphabet ==
    {"k", " ", "g", "G", "hbar", "HBAR", "cdot", "CDOT", "gdot", "GDOT",
     "zdot", "ZDOT"}
Queries == SeqsUpTo(QueryAlphabet, MaxQueryLen)

\* what the detector model and the translator model may answer
DetOutputs == {<<"m", "t">>, <<"e", "n">>, <<" ", "M", "T", "\n">>, <<"m">>, <<>>}
TrOutputs == {<<"q">>, <<" ", "q", "\n">>, <<>>}

\* generated answers: an optional Answer: label, a body of up to MaxBodyLen
\* characters and a tail of up to MaxTailLen characters
Labels == {<<>>, <<"Answer:">>, <<" ", "ANSWER:">>}
BodyAlphabet == {" ", "w"}
TailAlphabet == {"Sources:", "SOURCES:", " ", "w"}
AnswerTexts ==
    {l \o b \o t : l \in Labels,
                   b \in SeqsUpTo(BodyAlphabet, MaxBodyLen),
                   t \in SeqsUpTo(TailAlphabet, MaxTailLen)}

\* inputs of answer()
AnswerQueries == {<<"k">>, <<"hbar", "k">>}
AnswerMaxChars == {1, DefaultMaxChars}
TopKValues == {1, DefaultTopK}
AnswerDetOutputs == {<<"m", "t">>, <<"e", "n">>}
AnswerHits ==
    {Hit(<<"a", "b">>, [source_name |-> "doc_a", page_number |-> "1",
                        distance |-> "0.9"]),
     Hit(<<"a">>, [source_name |-> "doc_b", page_number |-> "None",
                   distance |-> "0.7"]),
     Hit(<<" ">>, [source_name |-> Missing, page_number |-> "None",
                   distance |-> "None"])}
AnswerHitLists == SeqsUpTo(AnswerHits, MaxRetrieved)
GenContents ==
    {<<"Answer:", " ", "w", "\n", "\n", "Sources:", " ", "w">>,
     <<"Answer:", " ", "w", "\n", "\n", "Sources:", "w">>,
     <<"w">>}
ReasoningContents == {None, NonStr, <<" ">>, <<" ", "r", "\n">>}
GenOutputs ==
    {[content |-> c, reasoning_content |-> r] :
        c \in GenContents, r \in ReasoningContents}
BackTrOutputs == {<<"m">>, <<" ", "m", "\n">>}

----------------------------------------------------------------------------
(* hits_to_chunks called on its own *)

NotCalled == [called |-> FALSE, chunks |-> <<>>, sources |-> <<>>]

IdleChunks ==
    /\ n_hits = <<>>
    /\ n_max_chars = DefaultMaxChars
    /\ n_ret = NotCalled

\* a call hits_to_chunks(n_hits, max_chars=m)
CallHitsToChunks ==
    /\ ~n_ret.called
    /\ \E m \in MaxCharsValues :
          /\ n_max_chars' = m
          /\ n_ret' = [called |-> TRUE,
                       chunks |-> hits_to_chunks(n_hits, m).chunks,
                       sources |-> hits_to_chunks(n_hits, m).sources]
    /\ UNCHANGED <<n_hits, routerVars, backVars, answerVars, classifyVars,
                   ingestVars, restVars>>

----------------------------------------------------------------------------
(* _detect_language and _query_for_retrieval called on their own *)

RouterIdle ==
    [op |-> "none", raised |-> "none", user_lang |-> "none",
     query_en |-> None, calls |-> <<>>]

IdleRouter ==
    /\ r_query = <<>>
    /\ r_ret = RouterIdle

CallDetectLanguage ==
    /\ r_ret.op = "none"
    /\ \E det_out \in DetOutputs :
          LET d == detect_language(r_query, det_out)
          IN  r_ret' = [op |-> "detect", raised |-> d.raised,
                        user_lang |-> d.ret, query_en |-> None,
                        calls |-> d.calls]
    /\ UNCHANGED <<r_query, chunkVars, backVars, answerVars, classifyVars,
                   ingestVars, restVars>>

CallQueryForRetrieval ==
    /\ r_ret.op = "none"
    /\ \E det_out \in DetOutputs, tr_out \in TrOutputs :
          LET q == query_for_retrieval(r_query, det_out, tr_out)
          IN  r_ret' = [op |-> "route", raised |-> q.raised,
                        user_lang |-> q.user_lang, query_en |-> q.query_en,
                        calls |-> q.calls]
    /\ UNCHANGED <<r_query, chunkVars, backVars, answerVars, classifyVars,
                   ingestVars, restVars>>

----------------------------------------------------------------------------
(* _translate_answer_line_to_maltese called on its own *)

BackIdle == [called |-> FALSE, raised |-> "none", ret |-> None, calls |-> <<>>]

IdleBack ==
    /\ b_text = <<>>
    /\ b_ret = BackIdle

CallTranslateAnswer ==
    /\ ~b_ret.called
    /\ \E tr_out \in TrOutputs :
          LET t == translate_answer_line_to_maltese(b_text, tr_out)
          IN  b_ret' = [called |-> TRUE, raised |-> t.raised, ret |-> t.ret,
                        calls |-> t.calls]
    /\ UNCHANGED <<b_text, chunkVars, routerVars, answerVars, classifyVars,
                   ingestVars, restVars>>

----------------------------------------------------------------------------
(* answer() *)

NoResult == [raised |-> "none", value |-> None]

IdleAnswer ==
    /\ reasoning_enabled = FALSE
    /\ a_pc = "idle"
    /\ a_query = <<>>
    /\ a_max_chars = DefaultMaxChars
    /\ a_top_k = DefaultTopK
    /\ a_query_en = None
    /\ a_user_lang = "none"
    /\ a_chunk_dicts = <<>>
    /\ a_sources = <<>>
    /\ a_stuffed = <<>>
    /\ a_answer_text = None
    /\ a_reasoning_text = None
    /\ a_calls = <<>>
    /\ a_ret = NoResult

\* query_en, user_lang = self._query_for_retrieval(query)
AnswerRoute ==
    /\ a_pc = "start"
    /\ \E det_out \in AnswerDetOutputs, tr_out \in TrOutputs :
          LET q == query_for_retrieval(a_query, det_out, tr_out)
          IN  /\ a_query_en' = q.query_en
              /\ a_user_lang' = q.user_lang
              /\ a_calls' = q.calls
              /\ a_pc' = IF q.raised = "none" THEN "retrieve" ELSE "raised"
              /\ a_ret' = [raised |-> q.raised, value |-> None]
    /\ UNCHANGED <<reasoning_enabled, a_query, a_max_chars, a_top_k, a_chunk_dicts,
                   a_sources, a_stuffed, a_answer_text, a_reasoning_text>>
    /\ UNCHANGED <<chunkVars, routerVars, backVars, classifyVars, ingestVars, restVars>>

\* hits = retrieve(...)[0]; hits_to_chunks; stuff_context; reasoning_text = None;
\* the "if not chunk_dicts" branch
AnswerRetrieve ==
    /\ a_pc = "retrieve"
    /\ \E hits \in AnswerHitLists :
          LET hc == hits_to_chunks(hits, a_max_chars)
          IN  /\ a_calls' = Append(a_calls, RetrieveCall(a_query_en, a_top_k, hits))
              /\ a_chunk_dicts' = hc.chunks
              /\ a_sources' = hc.sources
              /\ a_stuffed' = stuff_context(hc.chunks)
              /\ a_reasoning_text' = None
              /\ IF hc.chunks = <<>>
                 THEN a_answer_text' = NoContextAnswer /\ a_pc' = "build"
                 ELSE a_answer_text' = a_answer_text /\ a_pc' = "generate"
    /\ UNCHANGED <<reasoning_enabled, a_query, a_max_chars, a_top_k, a_query_en,
                   a_user_lang, a_ret>>
    /\ UNCHANGED <<chunkVars, routerVars, backVars, classifyVars, ingestVars, restVars>>

\* back-translation whatever the language of the query
AfterGenerate_Always(user_lang) == "translate_back"

\* if user_lang == "mt": answer_text = self._translate_answer_line_to_maltese(...)
AfterGenerate(user_lang) ==
    IF user_lang = "mt" THEN "translate_back" ELSE "build"

\* result = self.chain.invoke(...) returns; answer_text and reasoning_text
AnswerGenerate ==
    /\ a_pc = "generate"
    /\ \E g \in GenOutputs :
          LET r == Invoke("chain", PROMPT,
                          GenerateInput(a_query_en, a_stuffed),
                          IF reasoning_enabled THEN g ELSE g.content)
          IN  /\ a_calls' = a_calls \o r.calls
              /\ a_answer_text' = g.content
              /\ a_reasoning_text' =
                    IF reasoning_enabled
                    THEN NormalizeReasoning(g.reasoning_content)
                    ELSE a_reasoning_text
    /\ a_pc' = AfterGenerate(a_user_lang)
    /\ UNCHANGED <<reasoning_enabled, a_query, a_max_chars, a_top_k, a_query_en,
                   a_user_lang, a_chunk_dicts, a_sources, a_stuffed, a_ret>>
    /\ UNCHANGED <<chunkVars, routerVars, backVars, classifyVars, ingestVars, restVars>>

\* a first failure of the generation call answered by a second attempt
AnswerGenerateRaises_Retry ==
    /\ a_pc = "generate"
    /\ a_calls' = Append(a_calls,
                         [chain |-> "chain",
                          input |-> GenerateInput(a_query_en, a_stuffed),
                          out |-> None])
    /\ IF \A k \in 1..Len(a_calls) : a_calls[k].chain # "chain"
       THEN a_ret' = a_ret /\ a_pc' = "generate"
       ELSE /\ a_ret' = [raised |-> "GenerationError", value |-> None]
            /\ a_pc' = "raised"
    /\ UNCHANGED <<reasoning_enabled, a_query, a_max_chars, a_top_k, a_query_en,
                   a_user_lang, a_chunk_dicts, a_sources, a_stuffed,
                   a_answer_text, a_reasoning_text>>
    /\ UNCHANGED <<chunkVars, routerVars, backVars, classifyVars, ingestVars,
                   restVars>>

\* self.chain.invoke(...) raises
AnswerGenerateRaises ==
    /\ a_pc = "generate"
    /\ a_calls' = Append(a_calls,
                         [chain |-> "chain",
                          input |-> GenerateInput(a_query_en, a_stuffed),
                          out |-> None])
    /\ a_ret' = [raised |-> "GenerationError", value |-> None]
    /\ a_pc' = "raised"
    /\ UNCHANGED <<reasoning_enabled, a_query, a_max_chars, a_top_k, a_query_en,
                   a_user_lang, a_chunk_dicts, a_sources, a_stuffed,
                   a_answer_text, a_reasoning_text>>
    /\ UNCHANGED <<chunkVars, routerVars, backVars, classifyVars, ingestVars, restVars>>

\* answer_text = self._translate_answer_line_to_maltese(answer_text)
AnswerTranslateBack ==
    /\ a_pc = "translate_back"
    /\ \E tr_out \in BackTrOutputs :
          LET t == translate_answer_line_to_maltese(a_answer_text, tr_out)
          IN  /\ a_calls' = a_calls \o t.calls
              /\ IF t.raised = "none"
                 THEN /\ a_answer_text' = t.ret
                      /\ a_pc' = "build"
                      /\ a_ret' = a_ret
                 ELSE /\ a_answer_text' = a_answer_text
                      /\ a_pc' = "raised"
                      /\ a_ret' = [raised |-> t.raised, value |-> None]
    /\ UNCHANGED <<reasoning_enabled, a_query, a_max_chars, a_top_k, a_query_en,
                   a_user_lang, a_chunk_dicts, a_sources, a_stuffed,
                   a_reasoning_text>>
    /\ UNCHANGED <<chunkVars, routerVars, backVars, classifyVars, ingestVars, restVars>>

\* retrieval = RetrievalResult(...); return RAGAnswer(...)
AnswerBuild ==
    /\ a_pc = "build"
    /\ LET q == ReportedQuery(a_query, a_query_en)
           a == RAGAnswer(q, a_answer_text, a_reasoning_text, a_sources,
                          RetrievalResult(q, a_stuffed, a_chunk_dicts))
       IN  /\ a_ret' = a
           /\ a_pc' = IF a.raised = "none" THEN "done" ELSE "raised"
    /\ UNCHANGED <<reasoning_enabled, a_query, a_max_chars, a_top_k, a_query_en,
                   a_user_lang, a_chunk_dicts, a_sources, a_stuffed,
                   a_answer_text, a_reasoning_text, a_calls>>
    /\ UNCHANGED <<chunkVars, routerVars, backVars, classifyVars, ingestVars, restVars>>

----------------------------------------------------------------------------
(* classify_files_heavy and ingest_directory not called *)

ClassifyIdle ==
    [called |-> FALSE, raised |-> "none", normal |-> <<>>, heavy |-> <<>>,
     reasons |-> <<>>, opened |-> <<>>]

IdleClassify ==
    /\ c_files = <<>>
    /\ c_heavy_size_mb = DefaultHeavySizeMb
    /\ c_pdf_heavy_pages = DefaultPdfHeavyPages
    /\ c_ret = ClassifyIdle

NoReport == [raised |-> "none", value |-> None]

IdleIngest ==
    /\ i_pc = "idle"
    /\ i_files = <<>>
    /\ i_batch_size_normal = DefaultBatchSizeNormal
    /\ i_batch_size_heavy = DefaultBatchSizeHeavy
    /\ i_sleep_seconds = DefaultSleepSeconds
    /\ i_normal_files = <<>>
    /\ i_heavy_files = <<>>
    /\ i_heavy_reasons = <<>>
    /\ i_next = 0
    /\ i_all_results = <<>>
    /\ i_failures = <<>>
    /\ i_attempts = <<>>
    /\ i_ret = NoReport

----------------------------------------------------------------------------
(* api/retrieval.py: POST /rag/query *)

\* RAGQueryRequest: query of at least one character, top_k in 1..50,
\* max_chars_per_chunk in 200..5000; any other body is rejected before
\* query_rag runs
RequestValid(query, top_k, max_chars_per_chunk) ==
    /\ Len(query) >= 1
    /\ top_k >= 1 /\ top_k <= 50
    /\ max_chars_per_chunk >= 200 /\ max_chars_per_chunk <= 5000

\* None in the raw field of a RetrievedChunk, where answer() puts the hit
RawNone == [none |-> TRUE]

\* the chunks left as they are
StripRaw_Keep(chunks) == chunks

\* for c in ans.retrieval.chunks: c.raw = None
StripRaw(chunks) ==
    [k \in 1..Len(chunks) |-> [chunks[k] EXCEPT !.raw = RawNone]]

\* if not payload.include_stuffed_context: ans.retrieval.stuffed_context = ""
StripStuffed(stuffed_context, include_stuffed_context) ==
    IF include_stuffed_context THEN stuffed_context ELSE <<>>

\* what query_rag returns for the RAGAnswer ans that svc.answer() returned
query_rag(ans, include_raw, include_stuffed_context) ==
    [ans EXCEPT
       !.retrieval.chunks = IF include_raw THEN @ ELSE StripRaw(@),
       !.retrieval.stuffed_context = StripStuffed(@, include_stuffed_context)]

IdleApi ==
    /\ q_pc = "idle"
    /\ q_include_raw = FALSE
    /\ q_include_stuffed_context = FALSE
    /\ q_ret = NoResult

\* ans = svc.answer(...) has returned: the strip and the response
QueryRagReturns ==
    /\ q_pc = "request"
    /\ a_pc = "done"
    /\ \E include_raw \in BOOLEAN, include_stuffed_context \in BOOLEAN :
          /\ q_include_raw' = include_raw
          /\ q_include_stuffed_context' = include_stuffed_context
          /\ q_ret' = [raised |-> "none",
                       value |-> query_rag(a_ret.value, include_raw,
                                           include_stuffed_context)]
    /\ q_pc' = "responded"
    /\ UNCHANGED <<chunkVars, routerVars, backVars, answerVars, classifyVars,
                   ingestVars, healthVars, authVars, evalVars, chatVars>>

\* svc.answer(...) has raised: query_rag does not catch it
QueryRagRaises ==
    /\ q_pc = "request"
    /\ a_pc = "raised"
    /\ q_ret' = a_ret
    /\ q_pc' = "raised"
    /\ UNCHANGED <<q_include_raw, q_include_stuffed_context>>
    /\ UNCHANGED <<chunkVars, routerVars, backVars, answerVars, classifyVars,
                   ingestVars, healthVars, authVars, evalVars, chatVars>>

----------------------------------------------------------------------------
(* common/health.py and the /ready route of api/app.py.  A URL is the       *)
(* sequence <<scheme, host>>, then ":" and a port when it names one, then   *)
(* its path, "/" and each segment one element.                              *)

UrlHasPort(url) == Len(url) >= 4 /\ url[3] = ":"

\* the digits of a port as int() reads them; None when they are not digits
PortDigits(port) ==
    CASE port = "0" -> 0
      [] port = "80" -> 80
      [] port = "8012" -> 8012
      [] port = "11434" -> 11434
      [] port = "19530" -> 19530
      [] port = "99999" -> 99999
      [] OTHER -> -1

\* urlparse(url), .hostname and .port: urlparse raises ValueError on an
\* unclosed "[" in the host, .port raises ValueError on a port that is not
\* a number in 0..65535
urlparse(url) ==
    IF url[2] = "[::1"
    THEN [raised |-> "ValueError", hostname |-> "", port |-> 0]
    ELSE IF ~UrlHasPort(url)
    THEN [raised |-> "none", hostname |-> url[2], port |-> 0]
    ELSE IF PortDigits(url[4]) < 0 \/ PortDigits(url[4]) > 65535
    THEN [raised |-> "ValueError", hostname |-> url[2], port |-> 0]
    ELSE [raised |-> "none", hostname |-> url[2], port |-> PortDigits(url[4])]

\* host = u.hostname or "localhost"; port = u.port or default_port
parse_host_port_from_url(url, default_port) ==
    LET u == urlparse(url)
    IN  [raised |-> u.raised,
         host |-> IF u.hostname = "" THEN "localhost" ELSE u.hostname,
         port |-> IF u.port = 0 THEN default_port ELSE u.port]

NoExtra == {}

CheckResult(ok, name, detail) ==
    [ok |-> ok, name |-> name, detail |-> detail, extra |-> NoExtra]

\* check_tcp: connected is whether socket.create_connection succeeds
check_tcp(host, port, name, connected) ==
    IF connected
    THEN CheckResult(TRUE, name, <<host, ":", ToString(port)>>)
    ELSE CheckResult(FALSE, name,
                     <<host, ":", ToString(port), " - ", "OSError">>)

\* check_http_get: status is the status code of the response, or 0 when
\* client.get raises
check_http_get(url, name, status) ==
    IF status = 0
    THEN CheckResult(FALSE, name, url \o <<" - ", "HTTPError">>)
    ELSE CheckResult(200 <= status /\ status < 300, name,
                     <<ToString(status), " ">> \o url)

\* base_url.rstrip("/")
RStripSlash(url) ==
    LET keep == {k \in 1..Len(url) : \E j \in k..Len(url) : url[j] # "/"}
    IN  SubSeq(url, 1, Cardinality(keep))

\* endpoint.endswith("/v1")
EndsWithV1(url) ==
    Len(url) >= 2 /\ url[Len(url) - 1] = "/" /\ url[Len(url)] = "v1"

check_ollama(base_url, status) ==
    check_http_get(RStripSlash(base_url) \o <<"/", "api", "/", "tags">>,
                   "ollama", status)

DefaultNimPort == 80

check_nim_embedding(endpoint, status, connected) ==
    LET e == RStripSlash(endpoint)
        models_url == IF EndsWithV1(e) THEN e \o <<"/", "models">>
                      ELSE e \o <<"/", "v1", "/", "models">>
        res == check_http_get(models_url, "nim_embedding_http", status)
        hp == parse_host_port_from_url(e, DefaultNimPort)
        tcp == check_tcp(hp.host, hp.port, "nim_embedding_tcp", connected)
    IN  IF res.ok THEN res
        ELSE IF hp.raised # "none" THEN res
        ELSE [tcp EXCEPT !.extra = {[http_attempt |-> res.detail]}]

DefaultMilvusPort == 19530

\* check_milvus_uri parses outside any try
check_milvus_uri(milvus_uri, connected) ==
    LET hp == parse_host_port_from_url(milvus_uri, DefaultMilvusPort)
    IN  IF hp.raised # "none"
        THEN [raised |-> hp.raised, result |-> CheckResult(FALSE, "", <<>>)]
        ELSE [raised |-> "none",
              result |-> check_tcp(hp.host, hp.port, "milvus_tcp", connected)]

\* ok = all(r.ok for r in results)
AllOk(results) == \A k \in 1..Len(results) : results[k].ok

\* the latency_ms entries, which depend on the clock, are left out
aggregate(results) ==
    [ok |-> AllOk(results),
     checks |-> [k \in 1..Len(results) |->
                    [name |-> results[k].name, ok |-> results[k].ok,
                     detail |-> results[k].detail,
                     extra |-> results[k].extra]]]

NoReadyReport == [called |-> FALSE, raised |-> "none", ok |-> FALSE, checks |-> <<>>]

\* def ready()
ready(milvus_uri, embedding_endpoint, ollama_base_url, net) ==
    LET m == check_milvus_uri(milvus_uri, net.milvus_tcp)
        n == check_nim_embedding(embedding_endpoint, net.nim_http, net.nim_tcp)
        o == check_ollama(ollama_base_url, net.ollama_http)
        a == aggregate(<<m.result, n, o>>)
    IN  IF m.raised # "none"
        THEN [called |-> TRUE, raised |-> m.raised, ok |-> FALSE, checks |-> <<>>]
        ELSE [called |-> TRUE, raised |-> "none", ok |-> a.ok, checks |-> a.checks]

DefaultMilvusUri == <<"http://", "localhost", ":", "19530">>
DefaultEmbeddingEndpoint == <<"http://", "localhost", ":", "8012", "/", "v1">>
DefaultOllamaBaseUrl == <<"http://", "localhost", ":", "11434">>
NetIdle ==
    [milvus_tcp |-> FALSE, nim_http |-> 0, nim_tcp |-> FALSE, ollama_http |-> 0]

IdleHealth ==
    /\ h_milvus_uri = DefaultMilvusUri
    /\ h_embedding_endpoint = DefaultEmbeddingEndpoint
    /\ h_ollama_base_url = DefaultOllamaBaseUrl
    /\ h_net = NetIdle
    /\ h_ret = NoReadyReport

----------------------------------------------------------------------------
(* retrieval/dotnet_auth.py: DotNetAuthenticator.  A token is <<"jwt", iat,  *)
(* exp>> when its payload carries a numeric exp claim and <<"jwt", iat>>    *)
(* when it carries none (or cannot be decoded); iat tells tokens apart.     *)
(* A call reads the clock once.                                             *)

JWT(iat, exp) == <<"jwt", iat, exp>>
OpaqueJWT(iat) == <<"jwt", iat>>
HasExp(jwt) == Len(jwt) = 3
ExpOf(jwt) == jwt[3]

\* DotNetAuthConfig(guid): default_ttl_s = 60 * 60 * 24 * 30, refresh_skew_s = 60
DefaultAuthConfig ==
    [default_ttl_s |-> 60 * 60 * 24 * 30, refresh_skew_s |-> 60]

\* a cached token taken as valid until its very expiry
is_valid_NoSkew(token, exp_epoch, cfg, now) ==
    IF token = None THEN FALSE ELSE now < exp_epoch

\* _is_valid()
is_valid(token, exp_epoch, cfg, now) ==
    IF token = None THEN FALSE ELSE now < exp_epoch - cfg.refresh_skew_s

\* _ttl_from_jwt(jwt): the seconds left until exp; None, written 0, when
\* there is no numeric exp or none are left
ttl_from_jwt(jwt, now) ==
    IF ~HasExp(jwt) THEN 0
    ELSE IF ExpOf(jwt) - now <= 0 THEN 0
    ELSE ExpOf(jwt) - now

\* ttl_s = self._ttl_from_jwt(token) or self.cfg.default_ttl_s
TtlOf(jwt, cfg, now) ==
    IF ttl_from_jwt(jwt, now) = 0 THEN cfg.default_ttl_s
    ELSE ttl_from_jwt(jwt, now)

AuthRaises == <<"raises">>

\* get_token(force_refresh=...) at time now; issued is the token the
\* authenticate endpoint returns if asked, or AuthRaises
get_token(token, exp_epoch, cfg, now, force_refresh, issued) ==
    LET before == [token |-> token, exp_epoch |-> exp_epoch]
    IN  IF ~force_refresh /\ is_valid(token, exp_epoch, cfg, now)
        THEN [op |-> "get_token", force_refresh |-> force_refresh,
              now |-> now, authenticate |-> "none", issued |-> None,
              before |-> before, after |-> before,
              raised |-> FALSE, ret |-> token]
        ELSE IF issued = AuthRaises
        THEN [op |-> "get_token", force_refresh |-> force_refresh,
              now |-> now, authenticate |-> "raised", issued |-> None,
              before |-> before, after |-> before,
              raised |-> TRUE, ret |-> None]
        ELSE [op |-> "get_token", force_refresh |-> force_refresh,
              now |-> now, authenticate |-> "returned", issued |-> issued,
              before |-> before,
              after |-> [token |-> issued,
                         exp_epoch |-> now + TtlOf(issued, cfg, now)],
              raised |-> FALSE, ret |-> issued]

\* invalidate()
invalidate(token, exp_epoch, now) ==
    [op |-> "invalidate", force_refresh |-> FALSE, now |-> now,
     authenticate |-> "none", issued |-> None,
     before |-> [token |-> token, exp_epoch |-> exp_epoch],
     after |-> [token |-> None, exp_epoch |-> 0],
     raised |-> FALSE, ret |-> None]

\* __init__: self._token = None; self._exp_epoch = 0.0
NoAuthCall ==
    [op |-> "none", force_refresh |-> FALSE, now |-> 0,
     authenticate |-> "none", issued |-> None,
     before |-> [token |-> None, exp_epoch |-> 0],
     after |-> [token |-> None, exp_epoch |-> 0],
     raised |-> FALSE, ret |-> None]

IdleAuth ==
    /\ t_now = 0
    /\ t_cfg = DefaultAuthConfig
    /\ t_token = None
    /\ t_exp_epoch = 0
    /\ t_ret = NoAuthCall

----------------------------------------------------------------------------
(* evaluation/pipeline_service.py: EvalPipelineService.run_and_save.  A     *)
(* JSONL file is the sequence of its rows.  read_jsonl and append_jsonl     *)
(* (rag_platform.common.utils) read every row in order and add one row at   *)
(* the end, creating the file.                                              *)

read_jsonl(rows) == rows

append_jsonl(rows, row) == Append(rows, row)

\* header = f"[source: {c.source_name}" + (f", page: {c.page_number}]" ...)
ContextOf(c) ==
    <<"[source: ", c.source_name>>
    \o (IF c.page_number # "None" THEN <<", page: ", c.page_number, "]">>
        ELSE <<"]">>)
    \o <<"\n">> \o c.text

hits_to_context_list_from_retrieval_answer(rag) ==
    [k \in 1..Len(rag.retrieval.chunks) |-> ContextOf(rag.retrieval.chunks[k])]

\* processed_questions = {r["question"] for r in processed}
QuestionsOf(rows) == {rows[k].question : k \in 1..Len(rows)}

processed_questions(resume, exists, rows) ==
    IF resume /\ exists THEN QuestionsOf(read_jsonl(rows)) ELSE {}

\* no row skipped
AlreadyProcessed_Never(question, processed) == FALSE

\* if question in processed_questions: continue
AlreadyProcessed(question, processed) == question \in processed

\* ground_truth = row.get("reference", "")
GroundTruth(row) == IF row.reference = Missing THEN "" ELSE row.reference

OutputRow(row, rag) ==
    [question |-> row.user_input, answer |-> rag.answer,
     contexts |-> hits_to_context_list_from_retrieval_answer(rag),
     ground_truths |-> <<GroundTruth(row)>>]

IdleEval ==
    /\ e_pc = "idle"
    /\ e_testset = <<>>
    /\ e_resume = TRUE
    /\ e_exists = FALSE
    /\ e_output = <<>>
    /\ e_start_output = <<>>
    /\ e_processed = {}
    /\ e_next = 0
    /\ e_calls = <<>>
    /\ e_runs = 0

----------------------------------------------------------------------------
(* retrieval/dotnet_chat.py: DotNetChatModel.  The tags <think> and         *)
(* </think> are one character each; the patterns ignore case, so <THINK>    *)
(* and </THINK> are tags too.                                               *)

IsThinkOpen(c) == c \in {"<think>", "<THINK>"}
IsThinkClose(c) == c \in {"</think>", "</THINK>"}

ThinkCloses(t) == {k \in 1..Len(t) : IsThinkClose(t[k])}

\* where the lazy (.*?) of either pattern stops: at the first </think>
FirstThinkClose(t) ==
    CHOOSE k \in ThinkCloses(t) : \A j \in ThinkCloses(t) : k <= j

\* m.group(1).strip() or None
ReasoningOrNone(text) == IF Strip(text) = <<>> THEN None ELSE Strip(text)

\* _extract_think(text): _THINK_BLOCK_RE.match, then _THINK_CLOSE_ONLY_RE.match
extract_think(text) ==
    LET t == Strip(OrElse(text, <<>>))
        j == FirstThinkClose(t)
    IN  IF t = <<>> THEN [reasoning |-> None, answer |-> <<>>]
        ELSE IF ThinkCloses(t) = {} THEN [reasoning |-> None, answer |-> t]
        ELSE IF IsThinkOpen(t[1])
        THEN [reasoning |-> ReasoningOrNone(SubSeq(t, 2, j - 1)),
              answer |-> Strip(SubSeq(t, j + 1, Len(t)))]
        ELSE [reasoning |-> ReasoningOrNone(SubSeq(t, 1, j - 1)),
              answer |-> Strip(SubSeq(t, j + 1, Len(t)))]

\* answer.split(s, 1)[0].rstrip() when s is non-empty and in answer
CutAtStop(answer, s) ==
    IF s # <<>> /\ Contains(answer, s)
    THEN LET at == CHOOSE i \in 0..(Len(answer) - Len(s)) :
                      /\ SubSeq(answer, i + 1, i + Len(s)) = s
                      /\ \A k \in 0..(i - 1) :
                            SubSeq(answer, k + 1, k + Len(s)) # s
         IN  RStrip(SubSeq(answer, 1, at))
    ELSE answer

\* if stop: for s in stop: ...
RECURSIVE ApplyStop(_, _)
ApplyStop(answer, stop) ==
    IF stop = None \/ stop = <<>> THEN answer
    ELSE ApplyStop(CutAtStop(answer, Head(stop)), Tail(stop))

NoKwargs == <<>>

\* AIMessage(content=answer, additional_kwargs={"reasoning_content": ...}
\* if reasoning else {})
ThinkMessage(reasoning, answer) ==
    [content |-> answer,
     additional_kwargs |-> IF reasoning # None
                           THEN [reasoning_content |-> reasoning]
                           ELSE NoKwargs]

\* _generate, from the response of send_generate_request on
generate(response, stop) ==
    LET raw == Strip(OrElse(response, <<>>))
        e == extract_think(raw)
    IN  ThinkMessage(e.reasoning, ApplyStop(e.answer, stop))

NoMessage == [content |-> None, additional_kwargs |-> NoKwargs]

IdleChat ==
    /\ d_response = None
    /\ d_stop = None
    /\ d_ret = NoMessage

----------------------------------------------------------------------------
(* The components not called *)

IdleServices ==
    /\ IdleHealth
    /\ IdleAuth
    /\ IdleEval
    /\ IdleChat

IdleRest ==
    /\ IdleApi
    /\ IdleServices

----------------------------------------------------------------------------
(* Specifications *)

\* answer() called once on a service built with either reasoning setting;
\* with the arguments of a valid request body the call is query_rag's
Init ==
    /\ reasoning_enabled \in BOOLEAN
    /\ a_pc = "start"
    /\ a_query \in AnswerQueries
    /\ a_max_chars \in AnswerMaxChars
    /\ a_top_k \in TopKValues
    /\ a_query_en = None
    /\ a_user_lang = "none"
    /\ a_chunk_dicts = <<>>
    /\ a_sources = <<>>
    /\ a_stuffed = <<>>
    /\ a_answer_text = None
    /\ a_reasoning_text = None
    /\ a_calls = <<>>
    /\ a_ret = NoResult
    /\ IdleChunks
    /\ IdleRouter
    /\ IdleBack
    /\ IdleClassify
    /\ IdleIngest
    /\ q_pc = IF RequestValid(a_query, a_top_k, a_max_chars)
              THEN "request" ELSE "idle"
    /\ q_include_raw = FALSE
    /\ q_include_stuffed_context = FALSE
    /\ q_ret = NoResult
    /\ IdleServices

Next ==
    \/ AnswerRoute
    \/ AnswerRetrieve
    \/ AnswerGenerate
    \/ AnswerGenerateRaises
    \/ AnswerTranslateBack
    \/ AnswerBuild
    \/ QueryRagReturns
    \/ QueryRagRaises

Spec == Init /\ [][Next]_vars

\* hits_to_chunks on every hit list and max_chars of the bounds
InitChunks ==
    /\ n_hits \in HitLists
    /\ n_max_chars = DefaultMaxChars
    /\ n_ret = NotCalled
    /\ IdleRouter
    /\ IdleBack
    /\ IdleAnswer
    /\ IdleClassify
    /\ IdleIngest
    /\ IdleRest

NextChunks == CallHitsToChunks

SpecChunks == InitChunks /\ [][NextChunks]_vars

\* the language router on every query of the bounds
InitRouter ==
    /\ r_query \in Queries
    /\ r_ret = RouterIdle
    /\ IdleChunks
    /\ IdleBack
    /\ IdleAnswer
    /\ IdleClassify
    /\ IdleIngest
    /\ IdleRest

NextRouter ==
    \/ CallDetectLanguage
    \/ CallQueryForRetrieval

SpecRouter == InitRouter /\ [][NextRouter]_vars

\* back-translation on every generated answer of the bounds
InitBack ==
    /\ b_text \in AnswerTexts
    /\ b_ret = BackIdle
    /\ IdleChunks
    /\ IdleRouter
    /\ IdleAnswer
    /\ IdleClassify
    /\ IdleIngest
    /\ IdleRest

NextBack == CallTranslateAnswer

SpecBack == InitBack /\ [][NextBack]_vars

----------------------------------------------------------------------------
(* Claims about hits_to_chunks (SpecChunks) *)

TextOf(h) == IF h.text = None THEN <<>> ELSE h.text

\* C8, as stated, for the positive values of max_chars: every chunk made from
\* a hit whose entity text is longer than max_chars has a text of exactly
\* max_chars characters.
C8_AsStated ==
    (n_ret.called /\ n_max_chars >= 1) =>
        \A i \in 1..Len(n_ret.chunks) :
            LET c == n_ret.chunks[i]
            IN  Len(TextOf(c.raw)) > n_max_chars => Len(c.text) = n_max_chars

\* C8, amended: the cut applies to the whitespace-trimmed entity text.  When the
\* trimmed text is longer than max_chars and max_chars >= 0 the chunk text is its
\* first max_chars characters (length exactly max_chars); when max_chars is
\* negative the chunk text is the trimmed text without its last -max_chars
\* characters.
C8_HardCutOfTrimmedText ==
    n_ret.called =>
        \A i \in 1..Len(n_ret.chunks) :
            LET c == n_ret.chunks[i]
                t == Strip(TextOf(c.raw))
            IN  Len(t) > n_max_chars =>
                    IF n_max_chars >= 0
                    THEN /\ Len(c.text) = n_max_chars
                         /\ c.text = SubSeq(t, 1, n_max_chars)
                    ELSE c.text = SubSeq(t, 1, Max(0, Len(t) + n_max_chars))

\* a padded entity text that is cut: trimmed, it is still longer than max_chars
C8_Witness ==
    /\ n_ret.called
    /\ n_max_chars > 0
    /\ \E i \in 1..Len(n_ret.chunks) :
          LET c == n_ret.chunks[i]
          IN  /\ Strip(TextOf(c.raw)) # TextOf(c.raw)
              /\ Len(Strip(TextOf(c.raw))) > n_max_chars
              /\ Len(c.text) = n_max_chars

\* C9: every chunk returned by hits_to_chunks has a non-empty text of at most
\* max_chars characters, whatever max_chars is.
C9_TextNonEmptyAndBounded ==
    n_ret.called =>
        \A i \in 1..Len(n_ret.chunks) :
            /\ n_ret.chunks[i].text # <<>>
            /\ Len(n_ret.chunks[i].text) <= n_max_chars

----------------------------------------------------------------------------
(* Claims about the language router (SpecRouter) *)

\* the letters the claim names
UniqueLetters ==
    {"cdot", "gdot", "hbar", "zdot", "CDOT", "GDOT", "HBAR", "ZDOT"}

HasUniqueLetter(q) == \E i \in 1..Len(q) : q[i] \in UniqueLetters

CallsOf(calls, chain) ==
    LET Is(c) == c.chain = chain IN SelectSeq(calls, Is)

\* C5: a query with a Maltese-only letter is detected as "mt" and the detector
\* model is not invoked for it.
C5_HeuristicIsAuthoritative ==
    (r_ret.op # "none" /\ HasUniqueLetter(r_query)) =>
        /\ r_ret.user_lang = "mt"
        /\ CallsOf(r_ret.calls, "detect_lang") = <<>>

\* _detect_language has run on a query whose only marker is a capital letter
C5_Witness ==
    /\ r_ret.op = "detect"
    /\ \E i \in 1..Len(r_query) : r_query[i] \in {"CDOT", "GDOT", "HBAR", "ZDOT"}
    /\ \A i \in 1..Len(r_query) : r_query[i] \notin {"cdot", "gdot", "hbar", "zdot"}
    /\ r_ret.user_lang = "mt"

\* what the detector model answered means "mt"
SaysMaltese(out) == StartsWith(Lower(Strip(out)), <<"m", "t">>)

\* C6: _query_for_retrieval returns (query, "en") untranslated when the detected
\* language is primary, and when it is secondary invokes the translation chain
\* once, Maltese to English, on the original query and returns the stripped
\* translation with "mt".
C6_QueryRouting ==
    r_ret.op = "route" =>
        LET tr == CallsOf(r_ret.calls, "translate_text")
            det == CallsOf(r_ret.calls, "detect_lang")
            secondary == \/ HasUniqueLetter(r_query)
                         \/ (det # <<>> /\ SaysMaltese(det[1].out))
        IN  /\ r_ret.raised = "none"
            /\ ~secondary =>
                  /\ r_ret.user_lang = "en"
                  /\ r_ret.query_en = r_query
                  /\ tr = <<>>
            /\ secondary =>
                  /\ r_ret.user_lang = "mt"
                  /\ Len(tr) = 1
                  /\ tr[1].input =
                        [TEXT |-> r_query,
                         SOURCE_LANG |-> "Maltese", SOURCE_CODE |-> "mt",
                         TARGET_LANG |-> "English", TARGET_CODE |-> "en"]
                  /\ r_ret.query_en = Strip(tr[1].out)

\* the detector model said "mt", the query was translated and the translation
\* came back with surrounding whitespace
C6_Witness ==
    /\ r_ret.op = "route"
    /\ r_ret.user_lang = "mt"
    /\ Len(r_ret.calls) = 2
    /\ r_ret.calls[2].out # r_ret.query_en
    /\ r_ret.query_en # <<>>

----------------------------------------------------------------------------
(* Claims about back-translation (SpecBack) *)

\* a "Sources:" marker, in any case, at the start of a word
IsSourcesMarker(text, i) ==
    /\ LowerChar(text[i]) = "sources:"
    /\ (i = 1 \/ ~LastIsWord(text[i - 1]))

HasSourcesMarker(text) == \E i \in 1..Len(text) : IsSourcesMarker(text, i)

FirstSourcesMarker(text) ==
    CHOOSE i \in 1..Len(text) :
        IsSourcesMarker(text, i) /\ \A j \in 1..(i - 1) : ~IsSourcesMarker(text, j)

EndsWith(s, suffix) ==
    Len(s) >= Len(suffix) /\ SubSeq(s, Len(s) - Len(suffix) + 1, Len(s)) = suffix

\* the text after the first Sources: marker names something
ListsSources(text) ==
    /\ HasSourcesMarker(text)
    /\ Strip(SliceFrom(text, FirstSourcesMarker(text))) # <<>>

\* C1: for an answer that starts with the Answer: label and lists its sources
\* after a Sources: marker, the translator is given nothing from the marker
\* onward and the text from the marker onward (up to trailing whitespace) ends
\* the returned answer.
C1_SourcesUntouched ==
    (b_ret.called /\ StartsWith(Lower(Strip(b_text)), <<"answer:">>)
        /\ ListsSources(b_text)) =>
        /\ b_ret.raised = "none"
        /\ \A i \in 1..Len(b_ret.calls) :
              \A j \in 1..Len(b_ret.calls[i].input.TEXT) :
                  LowerChar(b_ret.calls[i].input.TEXT[j]) # "sources:"
        /\ EndsWith(b_ret.ret,
                    RStrip(SliceFrom(b_text, FirstSourcesMarker(b_text) - 1)))

\* C7: when the body segment is not empty and does not start with the Answer:
\* label, the translator is invoked once with the whole segment and the call returns the
\* stripped translation followed by the sources segment, without raising.
C7_FallbackTranslatesWholeBody ==
    (b_ret.called /\ SplitAnswer(b_text).answer_part # <<>>
        /\ ~HasAnswerLabel(SplitAnswer(b_text).answer_part)) =>
        /\ b_ret.raised = "none"
        /\ Len(b_ret.calls) = 1
        /\ b_ret.ret = Reattach(Strip(b_ret.calls[1].out),
                                SplitAnswer(b_text).sources_part)

----------------------------------------------------------------------------
(* Claims about answer() (Spec) *)

Retrieved == CallsOf(a_calls, "retrieve") # <<>>

\* C2: when retrieval yields no usable chunk, answer() returns an Answer with
\* the fixed sentence as answer, no sources and reasoning None.
C2_NoContextAnswer ==
    (a_pc \in {"done", "raised"} /\ Retrieved /\ a_chunk_dicts = <<>>) =>
        /\ a_pc = "done"
        /\ a_ret.raised = "none"
        /\ a_ret.value.answer = NoContextAnswer
        /\ a_ret.value.sources = <<>>
        /\ a_ret.value.reasoning = None

\* C3: answer() does not raise when every collaborator call returns normally.
C3_AlwaysReturnsAnswer ==
    a_pc = "raised" => a_ret.raised = "GenerationError"

\* C4: query and retrieval.query of a returned Answer are the caller's query.
C4_OriginalQueryPreserved ==
    a_pc = "done" =>
        /\ a_ret.value.query = a_query
        /\ a_ret.value.retrieval.query = a_query

\* an Answer returned for a query that was translated for retrieval
C4_Witness ==
    /\ a_pc = "done"
    /\ a_user_lang = "mt"
    /\ a_query_en # a_query
    /\ CallsOf(a_calls, "translate_text") # <<>>

FirstChunkOf(chunks, source_name) ==
    CHOOSE i \in 1..Len(chunks) :
        /\ chunks[i].source_name = source_name
        /\ \A j \in 1..(i - 1) : chunks[j].source_name # source_name

\* sources lists each source of the chunks once, in order of first appearance
SourcesMatchChunks(sources, chunks) ==
    /\ \A i, j \in 1..Len(sources) : sources[i] = sources[j] => i = j
    /\ {sources[i] : i \in 1..Len(sources)}
          = {chunks[i].source_name : i \in 1..Len(chunks)}
    /\ \A i, j \in 1..Len(sources) :
          i < j => FirstChunkOf(chunks, sources[i]) < FirstChunkOf(chunks, sources[j])

\* the hits the retriever returned that have a non-blank text
UsableHits(hits) ==
    LET Usable(h) == Strip(TextOf(h)) # <<>> IN SelectSeq(hits, Usable)

\* C10: sources has no duplicates, holds exactly the chunks' source names in
\* order of first appearance, every usable hit keeps its own chunk, and
\* Answer.sources is that list.
C10_SourcesDedupedChunksNot ==
    /\ a_pc \in {"generate", "translate_back", "build", "done"} =>
          /\ SourcesMatchChunks(a_sources, a_chunk_dicts)
          /\ LET hits == UsableHits(CallsOf(a_calls, "retrieve")[1].out)
             IN  /\ Len(a_chunk_dicts) = Len(hits)
                 /\ \A i \in 1..Len(hits) : a_chunk_dicts[i].raw = hits[i]
    /\ a_pc = "done" =>
          /\ a_ret.value.sources = a_sources
          /\ SourcesMatchChunks(a_ret.value.sources, a_ret.value.retrieval.chunks)

\* an Answer returned from hits of doc_a, doc_b and doc_a again: three chunks,
\* two sources
C10_Witness ==
    /\ a_pc = "done"
    /\ Len(a_ret.value.retrieval.chunks) = 3
    /\ a_ret.value.retrieval.chunks[3].source_name = "doc_a"
    /\ a_ret.value.sources = <<"doc_a", "doc_b">>

----------------------------------------------------------------------------
(* C11 (SpecChunks) *)

\* the source name recorded for a hit
SourceNameOf(h) ==
    IF h.source_name = Missing THEN "unknown_source" ELSE h.source_name

\* C11: hits_to_chunks returns one chunk per hit whose text is non-blank
\* after trimming, in the order of the hits, and nothing for a hit whose text
\* is missing, empty or blank: the chunk count is the number of non-blank
\* hits, the i-th chunk is made from the i-th non-blank hit, and every
\* sources entry is the source name of a non-blank hit.
C11_OneChunkPerNonBlankHit ==
    n_ret.called =>
        LET hits == UsableHits(n_hits)
        IN  /\ Len(n_ret.chunks) = Len(hits)
            /\ \A i \in 1..Len(hits) : n_ret.chunks[i].raw = hits[i]
            /\ {n_ret.sources[i] : i \in 1..Len(n_ret.sources)}
                  = {SourceNameOf(hits[i]) : i \in 1..Len(hits)}

\* a blank hit of doc_b before a non-blank hit of doc_a: one chunk, and
\* doc_b is not a source
C11_Witness ==
    /\ n_ret.called
    /\ Len(n_hits) = 2
    /\ n_hits[1].text = <<" ", " ">>
    /\ n_hits[1].source_name = "doc_b"
    /\ n_hits[2].source_name = "doc_a"
    /\ Len(n_ret.chunks) = 1
    /\ n_ret.chunks[1].raw = n_hits[2]
    /\ n_ret.sources = <<"doc_a">>

----------------------------------------------------------------------------
(* C12 (Spec) *)

\* the block of one chunk: header, newline, text
BlockOf(c) ==
    IF c.page_number = "None"
    THEN <<"[source: ", c.source_name, "]", "\n">> \o c.text
    ELSE <<"[source: ", c.source_name, ", page: ", c.page_number, "]", "\n">>
         \o c.text

\* what stands between two blocks
BlockSeparator == <<"\n", "\n", "---", "\n", "\n">>

\* where the i-th block starts in the stuffed context
RECURSIVE BlockStart(_, _)
BlockStart(chunks, i) ==
    IF i = 1 THEN 0
    ELSE BlockStart(chunks, i - 1) + Len(BlockOf(chunks[i - 1]))
            + Len(BlockSeparator)

\* stuffed holds the blocks of chunks in order, whole, with the separator
\* between neighbours and nothing else
IsStuffingOf(stuffed, chunks) ==
    LET n == Len(chunks)
    IN  /\ n = 0 => stuffed = <<>>
        /\ n > 0 =>
              Len(stuffed) = BlockStart(chunks, n) + Len(BlockOf(chunks[n]))
        /\ \A i \in 1..n :
              LET from == BlockStart(chunks, i)
                  len == Len(BlockOf(chunks[i]))
              IN  /\ SubSeq(stuffed, from + 1, from + len) = BlockOf(chunks[i])
                  /\ i < n =>
                        SubSeq(stuffed, from + len + 1,
                               from + len + Len(BlockSeparator))
                           = BlockSeparator

\* C12: the stuffed context answer() computes from its chunk list is the
\* chunks' blocks in input order, each "[source: X, page: Y]" or
\* "[source: X]", a newline and the whole chunk text, joined by
\* "\n\n---\n\n"; it is empty for an empty chunk list; and the returned
\* Answer carries that string.
C12_StuffedIsJoinedBlocks ==
    /\ a_pc \in {"generate", "translate_back", "build", "done"} =>
          IsStuffingOf(a_stuffed, a_chunk_dicts)
    /\ a_pc = "done" =>
          IsStuffingOf(a_ret.value.retrieval.stuffed_context,
                       a_ret.value.retrieval.chunks)

\* a context stuffed from a chunk with a page number and one without
C12_Witness ==
    /\ a_pc \in {"generate", "translate_back", "build", "done"}
    /\ Len(a_chunk_dicts) = 2
    /\ a_chunk_dicts[1].page_number = "1"
    /\ a_chunk_dicts[2].page_number = "None"
    /\ a_stuffed = <<"[source: ", "doc_a", ", page: ", "1", "]", "\n", "a", "b",
                     "\n", "\n", "---", "\n", "\n",
                     "[source: ", "doc_b", "]", "\n", "a">>

\* the stuffed context of an empty chunk list
C12_WitnessEmpty ==
    /\ a_pc = "build"
    /\ a_chunk_dicts = <<>>
    /\ a_stuffed = <<>>

----------------------------------------------------------------------------
(* C13, C14 (Spec) *)

\* the generation call of this answer() call, if it was made and returned
Generated ==
    IF a_ret.raised = "GenerationError" THEN <<>>
    ELSE CallsOf(a_calls, "chain")

\* the answer text of the generation call: the content of the AIMessage when
\* the side-channel is on, the parsed string otherwise
GeneratedText ==
    IF reasoning_enabled THEN Generated[1].out.content ELSE Generated[1].out

\* the side-channel is on and the response carries a non-blank string
\* reasoning_content
HasReasoningContent ==
    /\ reasoning_enabled
    /\ Generated # <<>>
    /\ IsStr(Generated[1].out.reasoning_content)
    /\ Strip(Generated[1].out.reasoning_content) # <<>>

\* answer() has reached "return RAGAnswer(...)" and evaluated it
BuiltAnswer ==
    a_pc \in {"done", "raised"} /\ a_ret.raised \in {"none", "ValidationError"}

\* C13: whenever answer() builds its Answer, the Answer is returned with a
\* reasoning that is never the empty string: the stripped reasoning_content
\* when the side-channel is on and the content is a non-blank string, and
\* None in every other case.
C13_ReasoningStrippedOrNone ==
    BuiltAnswer =>
        /\ a_pc = "done"
        /\ a_ret.value.reasoning # <<>>
        /\ a_ret.value.reasoning =
              IF HasReasoningContent
              THEN Strip(Generated[1].out.reasoning_content)
              ELSE None

\* what holds of the code: reasoning_text is normalised as C13 says, and the
\* Answers that are returned carry it
C13_ReasoningTextNormalised ==
    /\ a_pc \in {"translate_back", "build", "done"} \/ BuiltAnswer =>
          /\ a_reasoning_text # <<>>
          /\ a_reasoning_text =
                IF HasReasoningContent
                THEN Strip(Generated[1].out.reasoning_content)
                ELSE None
    /\ a_pc = "done" =>
          a_ret.value.reasoning = a_reasoning_text /\ HasReasoningContent

\* the calls of the translation chain that translate into Maltese
BackTranslations ==
    LET IsBack(c) == c.chain = "translate_text"
                     /\ "TARGET_LANG" \in DOMAIN c.input
                     /\ c.input.TARGET_LANG = MALTESE_LANGUAGE
    IN  SelectSeq(a_calls, IsBack)

\* C14: answer() reaches the back-translation only for a query detected as
\* Maltese and after generation returned; past it, the answer was translated
\* back (once) exactly when the query was Maltese and generation ran; and for
\* a query detected as English the translation chain was never invoked and
\* the answer text, also in the returned Answer, is the generated text.
C14_BackTranslationOnlyForMaltese ==
    /\ a_pc = "translate_back" => a_user_lang = "mt" /\ Generated # <<>>
    /\ a_pc \in {"build", "done"} \/ BuiltAnswer =>
          /\ BackTranslations # <<>> <=> (a_user_lang = "mt" /\ Generated # <<>>)
          /\ Len(BackTranslations) <= 1
    /\ a_user_lang = "en" =>
          /\ CallsOf(a_calls, "translate_text") = <<>>
          /\ a_pc \in {"build", "done"} /\ Generated # <<>> =>
                a_answer_text = GeneratedText
          /\ a_pc = "done" => a_ret.value.answer = GeneratedText

\* an Answer returned for a Maltese query: the answer was translated back
C14_Witness ==
    /\ a_pc = "done"
    /\ a_user_lang = "mt"
    /\ Len(BackTranslations) = 1
    /\ a_ret.value.answer # GeneratedText

\* an Answer returned for an English query: the generated text, untranslated
C14_WitnessPrimary ==
    /\ a_pc = "done"
    /\ a_user_lang = "en"
    /\ a_calls # <<>>
    /\ a_ret.value.answer = GeneratedText

----------------------------------------------------------------------------
(* classify_files_heavy called on its own *)

MaxFiles == 3

\* every list of up to MaxFiles paths, repeats included
FileLists == SeqsUpTo(ClassifiedPaths, MaxFiles)
HeavySizeValues == {PyFloat(50), PyInt(50), PyFloat(1)}
PdfHeavyPagesValues == {DefaultPdfHeavyPages, DefaultPdfHeavyPages - 1}

\* a call classify_files_heavy(c_files, heavy_size_mb=..., pdf_heavy_pages=...)
CallClassify ==
    /\ ~c_ret.called
    /\ LET r == classify_files_heavy(c_files, c_heavy_size_mb, c_pdf_heavy_pages)
       IN  c_ret' = [called |-> TRUE, raised |-> r.raised, normal |-> r.normal,
                     heavy |-> r.heavy, reasons |-> r.reasons,
                     opened |-> r.opened]
    /\ UNCHANGED <<c_files, c_heavy_size_mb, c_pdf_heavy_pages>>
    /\ UNCHANGED <<chunkVars, routerVars, backVars, answerVars, ingestVars, restVars>>

InitClassify ==
    /\ c_files \in FileLists
    /\ c_heavy_size_mb \in HeavySizeValues
    /\ c_pdf_heavy_pages \in PdfHeavyPagesValues
    /\ c_ret = ClassifyIdle
    /\ IdleChunks
    /\ IdleRouter
    /\ IdleBack
    /\ IdleAnswer
    /\ IdleIngest
    /\ IdleRest

NextClassify == CallClassify

SpecClassify == InitClassify /\ [][NextClassify]_vars

----------------------------------------------------------------------------
(* Claims about classify_files_heavy (SpecClassify) *)

\* the call was made and returned its three lists
Classified == c_ret.called /\ c_ret.raised = "none"

\* how often x occurs in the list
Count(list, x) == Cardinality({i \in 1..Len(list) : list[i] = x})

Range(list) == {list[i] : i \in 1..Len(list)}

\* C15: when classify_files_heavy returns, normal and heavy share no path,
\* every path occurs in the two together as often as in files, each is the
\* files of its category in input order, and the lengths add up.
C15_ExactlyOneCategory ==
    Classified =>
        LET InNormal(f) == f \in Range(c_ret.normal)
            InHeavy(f) == f \in Range(c_ret.heavy)
        IN  /\ Range(c_ret.normal) \cap Range(c_ret.heavy) = {}
            /\ \A f \in ClassifiedPaths :
                  Count(c_ret.normal, f) + Count(c_ret.heavy, f)
                     = Count(c_files, f)
            /\ c_ret.normal = SelectSeq(c_files, InNormal)
            /\ c_ret.heavy = SelectSeq(c_files, InHeavy)
            /\ Len(c_ret.normal) + Len(c_ret.heavy) = Len(c_files)

\* a normal file listed twice around a heavy one
C15_Witness ==
    /\ Classified
    /\ c_files = <<UnderTxt, BigTxt, UnderTxt>>
    /\ c_ret.normal = <<UnderTxt, UnderTxt>>
    /\ c_ret.heavy = <<BigTxt>>

----------------------------------------------------------------------------
(* C16 (SpecClassify) *)

\* the file has a .pdf extension, in any case
IsPdf(f) == Lower(PathSuffix(f)) = <<".", "p", "d", "f">>

\* the page count of a PDF, maximal when it cannot be read (C17)
PageCountOf(f) ==
    IF FileSystem(f).pdf_ok THEN FileSystem(f).pages ELSE UnreadablePages

\* the size of the file in MB is at least the whole number t
AtLeastMB(f, t) == FileSystem(f).st_size >= t * BytesPerMB

\* the reason records of the file
ReasonsOf(f) ==
    {c_ret.reasons[i].reason : i \in {j \in 1..Len(c_ret.reasons) :
                                        c_ret.reasons[j].file = f}}

\* the rule of C16, with threshold_text the threshold as the size reason
\* writes it
HeavyRuleHolds(threshold_text) ==
    Classified =>
        \A f \in Range(c_files) :
            LET by_size == AtLeastMB(f, c_heavy_size_mb.whole)
                by_pages == IsPdf(f) /\ PageCountOf(f) >= c_pdf_heavy_pages
            IN  /\ f \in Range(c_ret.heavy) <=> (by_size \/ by_pages)
                /\ by_size =>
                      /\ f \notin Range(c_ret.opened)
                      /\ ReasonsOf(f) = {<<"size_mb>=">> \o threshold_text}

\* C16, as stated: a file is heavy iff its size in MB is at least
\* heavy_size_mb or it is a PDF of at least pdf_heavy_pages pages; for a
\* file meeting the size threshold the page count is not read and the reason
\* is "size_mb>=T" with T as in the example, "size_mb>=50" for 50.
C16_AsStated == HeavyRuleHolds(<<ToString(c_heavy_size_mb.whole)>>)

\* C16, amended: the same rule, with the reason "size_mb>=" followed by the
\* threshold as Python prints it: "50" for the int 50 and "50.0" for the
\* float 50.0, which is the default and what Settings supplies.
C16_SizeRuleFirst ==
    HeavyRuleHolds(IF c_heavy_size_mb.kind = "float"
                   THEN <<ToString(c_heavy_size_mb.whole), ".0">>
                   ELSE <<ToString(c_heavy_size_mb.whole)>>)

\* a 60 MB PDF that cannot be read and a 60 MB text file, with the default
\* heavy_size_mb: both heavy by size, no page count read
C16_Witness ==
    /\ Classified
    /\ c_heavy_size_mb = DefaultHeavySizeMb
    /\ c_files = <<BigPdf, BigTxt>>
    /\ c_ret.heavy = <<BigPdf, BigTxt>>
    /\ c_ret.opened = <<>>
    /\ c_ret.reasons[1].reason = <<"size_mb>=", "50", ".0">>
    /\ c_ret.reasons[2].reason = <<"size_mb>=", "50", ".0">>

\* the example of C16 with the int 50 passed for heavy_size_mb
C16_WitnessInt ==
    /\ Classified
    /\ c_heavy_size_mb = PyInt(50)
    /\ c_files = <<BigTxt>>
    /\ c_ret.reasons[1].reason = <<"size_mb>=", "50">>

----------------------------------------------------------------------------
(* C17 (SpecClassify) *)

\* heavy-routing cannot read the file: its size, or the pages of a PDF
CannotBeRead(f) ==
    \/ ~FileSystem(f).stat_ok
    \/ IsPdf(f) /\ ~FileSystem(f).pdf_ok

\* the reason records of the file, whole
ReasonRecordsOf(f) ==
    {c_ret.reasons[i] : i \in {j \in 1..Len(c_ret.reasons) :
                                 c_ret.reasons[j].file = f}}

\* C17: classify_files_heavy does not raise on a file it cannot read and
\* puts every such file in heavy; a PDF below the size threshold whose pages
\* cannot be read gets the page-count reason.
C17_UnreadableIsHeavy ==
    c_ret.called =>
        /\ c_ret.raised = "none"
        /\ \A f \in Range(c_files) :
              CannotBeRead(f) =>
                 /\ f \in Range(c_ret.heavy)
                 /\ ~AtLeastMB(f, c_heavy_size_mb.whole) =>
                       \A r \in ReasonRecordsOf(f) :
                           r.reason = <<"pdf_pages>=", ToString(c_pdf_heavy_pages)>>

\* what holds of the code: when the call returns, a PDF below the size
\* threshold whose pages cannot be read is heavy, with the page-count reason
\* and the maximal page count, and the files after it are classified too
C17_UnreadablePdfIsHeavy ==
    Classified =>
        /\ Len(c_ret.normal) + Len(c_ret.heavy) = Len(c_files)
        /\ \A f \in Range(c_files) :
              (  /\ IsPdf(f)
                 /\ ~FileSystem(f).pdf_ok
                 /\ ~AtLeastMB(f, c_heavy_size_mb.whole)) =>
                 /\ f \in Range(c_ret.heavy)
                 /\ \A r \in ReasonRecordsOf(f) :
                       /\ r.reason = <<"pdf_pages>=", ToString(c_pdf_heavy_pages)>>
                       /\ r.pages = UnreadablePages

\* an unreadable PDF before a normal file
C17_WitnessUnreadablePdf ==
    /\ Classified
    /\ c_files = <<BadPdf, UnderTxt>>
    /\ c_heavy_size_mb = DefaultHeavySizeMb
    /\ c_ret.heavy = <<BadPdf>>
    /\ c_ret.normal = <<UnderTxt>>
    /\ c_ret.reasons[1].pages = UnreadablePages

----------------------------------------------------------------------------
(* C18 (SpecClassify) *)

\* h hundredths of a MB is the size of the file to the nearest hundredth
IsRoundedSizeOf(h, f) ==
    LET bytes == FileSystem(f).st_size
        d == h - 100 * (bytes \div BytesPerMB)
        off == 200 * (bytes % BytesPerMB) - 2 * d * BytesPerMB
    IN  off <= BytesPerMB /\ off >= -BytesPerMB

\* C18: when classify_files_heavy returns, reasons runs parallel to heavy:
\* the i-th reason names the i-th heavy file, the rule that made it heavy
\* and its size (in MB, to two decimals), and has a "pages" entry, the page
\* count, exactly when the page-count rule made it heavy; no reason names a
\* normal file.
C18_OneReasonPerHeavyFile ==
    Classified =>
        /\ Len(c_ret.reasons) = Len(c_ret.heavy)
        /\ \A f \in Range(c_ret.normal) : ReasonRecordsOf(f) = {}
        /\ \A i \in 1..Len(c_ret.heavy) :
              LET f == c_ret.heavy[i]
                  r == c_ret.reasons[i]
                  by_size == AtLeastMB(f, c_heavy_size_mb.whole)
              IN  /\ r.file = f
                  /\ IsRoundedSizeOf(r.size_mb, f)
                  /\ "pages" \in DOMAIN r <=> ~by_size
                  /\ by_size => r.reason[1] = "size_mb>="
                  /\ ~by_size =>
                        /\ r.reason = <<"pdf_pages>=", ToString(c_pdf_heavy_pages)>>
                        /\ r.pages = PageCountOf(f)

\* a PDF heavy by its 80 pages, a text file heavy by its size, a normal PDF
C18_Witness ==
    /\ Classified
    /\ c_files = <<LongPdf, BigTxt, ShortPdf>>
    /\ c_heavy_size_mb = PyInt(50)
    /\ c_ret.heavy = <<LongPdf, BigTxt>>
    /\ c_ret.reasons =
          <<[file |-> LongPdf, reason |-> <<"pdf_pages>=", "80">>,
             size_mb |-> 38, pages |-> 80],
            [file |-> BigTxt, reason |-> <<"size_mb>=", "50">>,
             size_mb |-> 6000]>>

----------------------------------------------------------------------------
(* ingest_directory, step by step, with report_dir left unset *)

MaxNormalFiles == 11
MaxHeavyFiles == 2

NormalFiles(n) == [k \in 1..n |-> NormalFile(k)]
HeavyFiles(h) == [k \in 1..h |-> HeavyFile(k)]

\* what prepare_files returned: heavy PDFs and small text files, or a file
\* that is gone by the time it is classified
PreparedLists ==
    {HeavyFiles(h) \o NormalFiles(n) :
        h \in 0..MaxHeavyFiles, n \in 0..MaxNormalFiles}
    \cup {<<GoneTxt>>}

NormalBatchSizes == {-1, 0, 2, DefaultBatchSizeNormal, MaxNormalFiles}
HeavyBatchSizes == {0, DefaultBatchSizeHeavy, 2}
SleepValues == {0, DefaultSleepSeconds}

\* what ingestor.ingest(return_failures=True) returns for a batch: every
\* file ingested, or the first file reported as failed
IngestOutcomes(batch) ==
    {[results |-> batch, batch_failures |-> <<>>],
     [results |-> Tail(batch),
      batch_failures |-> <<[file |-> Head(batch), error |-> "failed"]>>]}

\* files = prepare_files(...); classify_files_heavy(files, ...)
IngestPrepare ==
    /\ i_pc = "start"
    /\ LET r == classify_files_heavy(i_files, DefaultHeavySizeMb,
                                     DefaultPdfHeavyPages)
       IN  IF r.raised = "none"
           THEN /\ i_normal_files' = r.normal
                /\ i_heavy_files' = r.heavy
                /\ i_heavy_reasons' = r.reasons
                /\ i_pc' = "normal"
                /\ i_ret' = i_ret
           ELSE /\ UNCHANGED <<i_normal_files, i_heavy_files, i_heavy_reasons>>
                /\ i_pc' = "raised"
                /\ i_ret' = [raised |-> r.raised, value |-> None]
    /\ UNCHANGED <<i_files, i_batch_size_normal, i_batch_size_heavy,
                   i_sleep_seconds, i_next, i_all_results, i_failures,
                   i_attempts>>
    /\ UNCHANGED <<chunkVars, routerVars, backVars, answerVars, classifyVars, restVars>>

\* the batches of the pass that is running
PassBatches ==
    IF i_pc = "normal" THEN chunk_list(i_normal_files, i_batch_size_normal)
    ELSE chunk_list(i_heavy_files, i_batch_size_heavy)

InPass(pass) ==
    /\ i_pc = pass
    /\ PassBatches.raised = "none"
    /\ i_next < Len(PassBatches.batches)

\* the for statement asks chunk_list for its first batch and range() raises
ChunkListRaises ==
    /\ i_pc \in {"normal", "heavy"}
    /\ PassBatches.raised # "none"
    /\ i_pc' = "raised"
    /\ i_ret' = [raised |-> PassBatches.raised, value |-> None]
    /\ UNCHANGED <<i_files, i_batch_size_normal, i_batch_size_heavy,
                   i_sleep_seconds, i_normal_files, i_heavy_files,
                   i_heavy_reasons, i_next, i_all_results, i_failures,
                   i_attempts>>
    /\ UNCHANGED <<chunkVars, routerVars, backVars, answerVars, classifyVars, restVars>>

\* one iteration of a batch loop in which ingestor.ingest returns
BatchReturns(pass, heavy_mode) ==
    /\ InPass(pass)
    /\ LET batch == PassBatches.batches[i_next + 1]
       IN  \E out \in IngestOutcomes(batch) :
              /\ i_all_results' = i_all_results \o out.results
              /\ i_failures' = i_failures \o ItemFailures(out.batch_failures)
              /\ i_attempts' = Append(i_attempts,
                                      IngestEvent(heavy_mode, batch, FALSE))
                                   \o MaybeSleep(i_sleep_seconds)
    /\ i_next' = i_next + 1
    /\ UNCHANGED <<i_pc, i_files, i_batch_size_normal, i_batch_size_heavy,
                   i_sleep_seconds, i_normal_files, i_heavy_files,
                   i_heavy_reasons, i_ret>>
    /\ UNCHANGED <<chunkVars, routerVars, backVars, answerVars, classifyVars, restVars>>

\* one iteration of a batch loop in which building or running the ingestor
\* raises
BatchRaises(pass, heavy_mode) ==
    /\ InPass(pass)
    /\ LET batch == PassBatches.batches[i_next + 1]
       IN  /\ i_failures' = Append(i_failures,
                                   BatchFailure(batch, i_next + 1, heavy_mode,
                                                "IngestError()"))
           /\ i_attempts' = Append(i_attempts,
                                   IngestEvent(heavy_mode, batch, TRUE))
                                \o MaybeSleep(i_sleep_seconds)
    /\ i_next' = i_next + 1
    /\ UNCHANGED <<i_pc, i_files, i_batch_size_normal, i_batch_size_heavy,
                   i_sleep_seconds, i_normal_files, i_heavy_files,
                   i_heavy_reasons, i_all_results, i_ret>>
    /\ UNCHANGED <<chunkVars, routerVars, backVars, answerVars, classifyVars, restVars>>

\* a batch loop has no batch left
PassEnds(pass, then) ==
    /\ i_pc = pass
    /\ PassBatches.raised = "none"
    /\ i_next = Len(PassBatches.batches)
    /\ i_pc' = then
    /\ i_next' = 0
    /\ UNCHANGED <<i_files, i_batch_size_normal, i_batch_size_heavy,
                   i_sleep_seconds, i_normal_files, i_heavy_files,
                   i_heavy_reasons, i_all_results, i_failures, i_attempts,
                   i_ret>>
    /\ UNCHANGED <<chunkVars, routerVars, backVars, answerVars, classifyVars, restVars>>

NormalBatchReturns == BatchReturns("normal", FALSE)
NormalBatchRaises == BatchRaises("normal", FALSE)
NormalPassEnds == PassEnds("normal", "heavy")
HeavyBatchReturns == BatchReturns("heavy", TRUE)
HeavyBatchRaises == BatchRaises("heavy", TRUE)
HeavyPassEnds == PassEnds("heavy", "report")

\* report = IngestionReport(...); return report
BuildReport ==
    /\ i_pc = "report"
    /\ i_pc' = "done"
    /\ i_ret' = [raised |-> "none",
                 value |-> IngestionReport(i_files, i_normal_files,
                                           i_heavy_files, i_all_results,
                                           i_failures, i_heavy_reasons)]
    /\ UNCHANGED <<i_files, i_batch_size_normal, i_batch_size_heavy,
                   i_sleep_seconds, i_normal_files, i_heavy_files,
                   i_heavy_reasons, i_next, i_all_results, i_failures,
                   i_attempts>>
    /\ UNCHANGED <<chunkVars, routerVars, backVars, answerVars, classifyVars, restVars>>

\* ingest_directory called once on the prepared files and settings of the
\* bounds
InitIngest ==
    /\ i_pc = "start"
    /\ i_files \in PreparedLists
    /\ i_batch_size_normal \in NormalBatchSizes
    /\ i_batch_size_heavy \in HeavyBatchSizes
    /\ i_sleep_seconds \in SleepValues
    /\ i_normal_files = <<>>
    /\ i_heavy_files = <<>>
    /\ i_heavy_reasons = <<>>
    /\ i_next = 0
    /\ i_all_results = <<>>
    /\ i_failures = <<>>
    /\ i_attempts = <<>>
    /\ i_ret = NoReport
    /\ IdleChunks
    /\ IdleRouter
    /\ IdleBack
    /\ IdleAnswer
    /\ IdleClassify
    /\ IdleRest

NextIngest ==
    \/ IngestPrepare
    \/ ChunkListRaises
    \/ NormalBatchReturns
    \/ NormalBatchRaises
    \/ NormalPassEnds
    \/ HeavyBatchReturns
    \/ HeavyBatchRaises
    \/ HeavyPassEnds
    \/ BuildReport

SpecIngest == InitIngest /\ [][NextIngest]_vars

----------------------------------------------------------------------------
(* Claims about the batch loops of ingest_directory (SpecIngest) *)

\* the batches whose ingestion raised, in order
RaisedBatches ==
    LET Raised(e) == e.event = "ingest" /\ e.raised
    IN  SelectSeq(i_attempts, Raised)

\* the failure records of whole batches, and those of single files
BatchRecords ==
    LET IsBatch(r) == r.reason \in {"exception_normal_batch",
                                      "exception_heavy_batch"}
    IN  SelectSeq(i_failures, IsBatch)
ItemRecords ==
    LET IsItem(r) == r.reason = "nv_ingest_failure" IN SelectSeq(i_failures, IsItem)

\* the files handed to an ingestor so far, in order
AttemptedFiles ==
    LET IsIngest(e) == e.event = "ingest"
        events == SelectSeq(i_attempts, IsIngest)
    IN  Join(<<>>, [k \in 1..Len(events) |-> events[k].files])

\* each batch that raised has its own failure record, in order, which names
\* the first count(batch) files of the batch, and no record of a single file
\* names a file of the batch
BatchRecordsName(count(_)) ==
    /\ Len(BatchRecords) = Len(RaisedBatches)
    /\ \A k \in 1..Len(RaisedBatches) :
          LET batch == RaisedBatches[k].files
              rec == BatchRecords[k]
          IN  /\ rec.reason = (IF RaisedBatches[k].heavy_mode
                               THEN "exception_heavy_batch"
                               ELSE "exception_normal_batch")
              /\ rec.details.files_count = Len(batch)
              /\ \A j \in 1..count(batch) : Contains(rec.file, batch[j])
              /\ \A j \in 1..Len(batch) :
                    \A i \in 1..Len(ItemRecords) : ItemRecords[i].file # batch[j]

\* with positive batch sizes, a run that reached its report handed every
\* normal file and then every heavy file to an ingestor
EveryBatchAttempted ==
    (  /\ i_pc \in {"report", "done"}
       /\ i_batch_size_normal > 0
       /\ i_batch_size_heavy > 0) =>
       AttemptedFiles = i_normal_files \o i_heavy_files

AllOf(batch) == Len(batch)
FirstTenOf(batch) == Min(Len(batch), FileFieldLimit)

\* C19: a batch whose ingestion raised gets exactly one failure record,
\* which names every file of the batch whatever the batch size, no per-file
\* record is added for it, and the later batches are still processed.
C19_OneRecordNamingEveryFile ==
    BatchRecordsName(AllOf) /\ EveryBatchAttempted

\* what holds of the code: the record names the first ten files of the
\* batch and gives the number of its files
C19_OneRecordNamingTenFiles ==
    BatchRecordsName(FirstTenOf) /\ EveryBatchAttempted

\* the first of three batches of five raised: one record naming its five
\* files, and the run went on
C19_WitnessBatchOfFive ==
    /\ i_pc = "done"
    /\ i_batch_size_normal = DefaultBatchSizeNormal
    /\ Len(i_normal_files) = MaxNormalFiles
    /\ Len(RaisedBatches) = 1
    /\ i_attempts[1].raised
    /\ Len(BatchRecords[1].file) = 5 * Len(NormalFile(1)) + 4
    /\ i_ret.value.results_count = Len(i_normal_files) - 5

----------------------------------------------------------------------------
(* C20 (SpecIngest) *)

\* preparation and classification have succeeded
ClassifiedForIngest == i_pc \notin {"idle", "start"} /\ i_ret.raised # "OSError"

\* the returned report holds every failure recorded, one per batch that
\* raised and one per file the ingestor reported
ReportHoldsFailures ==
    i_pc = "done" =>
        /\ i_ret.value.failures = i_failures
        /\ Len(i_failures) = Len(BatchRecords) + Len(ItemRecords)
        /\ Len(BatchRecords) = Len(RaisedBatches)

\* C20: once the files are prepared and classified, ingest_directory does
\* not raise, whatever batches fail and whatever the batch sizes are, and
\* the run that returns its report has handed every normal and every heavy
\* file to an ingestor and reports all the failures recorded.
C20_FailuresNeverAbort ==
    ClassifiedForIngest =>
        /\ i_pc # "raised"
        /\ i_pc = "done" => AttemptedFiles = i_normal_files \o i_heavy_files
        /\ ReportHoldsFailures

\* what holds of the code: the same for positive batch sizes
C20_FailuresNeverAbortPositiveSizes ==
    (ClassifiedForIngest /\ i_batch_size_normal > 0 /\ i_batch_size_heavy > 0) =>
        /\ i_pc # "raised"
        /\ i_pc = "done" => AttemptedFiles = i_normal_files \o i_heavy_files
        /\ ReportHoldsFailures

\* a run in which every batch raised still returned its report
C20_WitnessEveryBatchRaised ==
    /\ i_pc = "done"
    /\ Len(i_normal_files) = 5
    /\ Len(i_heavy_files) = 2
    /\ i_batch_size_normal = 2
    /\ i_batch_size_heavy = 1
    /\ Len(RaisedBatches) = 5
    /\ Len(i_ret.value.failures) = 5
    /\ i_ret.value.results_count = 0

\* a run with a negative batch size returned a report without having handed
\* any file to an ingestor
C20_WitnessNegativeBatchSize ==
    /\ i_pc = "done"
    /\ i_batch_size_normal < 0
    /\ i_normal_files # <<>>
    /\ AttemptedFiles = i_heavy_files
    /\ i_ret.value.failures = <<>>


----------------------------------------------------------------------------
(* C21 (Spec) *)

Responded == q_pc = "responded"
ResponseChunks == q_ret.value.retrieval.chunks
AnswerChunks == a_ret.value.retrieval.chunks

\* the fields query_rag is to leave as answer() produced them
SameButDebugPayloads(r, a) ==
    /\ r.query = a.query
    /\ r.answer = a.answer
    /\ r.reasoning = a.reasoning
    /\ r.sources = a.sources
    /\ r.retrieval.query = a.retrieval.query
    /\ Len(r.retrieval.chunks) = Len(a.retrieval.chunks)
    /\ \A k \in 1..Len(r.retrieval.chunks) :
          LET rc == r.retrieval.chunks[k]
              ac == a.retrieval.chunks[k]
          IN  /\ rc.text = ac.text
              /\ rc.source_name = ac.source_name
              /\ rc.page_number = ac.page_number
              /\ rc.score = ac.score

\* C21: in the response of POST /rag/query every chunk's raw is None unless
\* include_raw was set, retrieval.stuffed_context is the empty string unless
\* include_stuffed_context was set, and answer, reasoning, sources, query and
\* the chunks' text, source, page and score are as answer() returned them.
C21_DebugPayloadsStripped ==
    Responded =>
        /\ ~q_include_raw =>
              \A k \in 1..Len(ResponseChunks) : ResponseChunks[k].raw = RawNone
        /\ ~q_include_stuffed_context =>
              q_ret.value.retrieval.stuffed_context = <<>>
        /\ SameButDebugPayloads(q_ret.value, a_ret.value)

\* a response with neither flag set, to an answer that carried two chunks
\* and a stuffed context
C21_Witness ==
    /\ Responded
    /\ ~q_include_raw
    /\ ~q_include_stuffed_context
    /\ Len(AnswerChunks) = 2
    /\ AnswerChunks[1].raw # RawNone
    /\ a_ret.value.retrieval.stuffed_context # <<>>

\* a response with both flags set keeps both payloads
C21_WitnessRequested ==
    /\ Responded
    /\ q_include_raw
    /\ q_include_stuffed_context
    /\ Len(ResponseChunks) = 2
    /\ ResponseChunks = AnswerChunks
    /\ q_ret.value.retrieval.stuffed_context # <<>>


----------------------------------------------------------------------------
(* ready() called once (SpecHealth) *)

MilvusUris ==
    {DefaultMilvusUri,
     <<"tcp://", "milvus">>,
     <<"tcp://", "", ":", "0">>,
     <<"http://", "milvus", ":", "abc">>,
     <<"http://", "milvus", ":", "99999">>,
     <<"http://", "[::1", ":", "19530">>}
EmbeddingEndpoints ==
    {DefaultEmbeddingEndpoint,
     <<"http://", "nim", ":", "8012", "/">>,
     <<"http://", "nim">>,
     <<"http://", "nim", ":", "abc", "/", "v1">>}
OllamaBaseUrls ==
    {DefaultOllamaBaseUrl, <<"http://", "ollama", ":", "abc", "/">>}

Malformed(url) == urlparse(url).raised # "none"

\* every answer of the network; an HTTP request to a malformed URL raises
NetOutcomes(embedding_endpoint, ollama_base_url) ==
    {net \in [milvus_tcp : BOOLEAN, nim_http : {0, 200, 503},
              nim_tcp : BOOLEAN, ollama_http : {0, 200, 404}] :
        /\ Malformed(embedding_endpoint) => net.nim_http = 0
        /\ Malformed(ollama_base_url) => net.ollama_http = 0}

CallReady ==
    /\ ~h_ret.called
    /\ h_ret' = ready(h_milvus_uri, h_embedding_endpoint, h_ollama_base_url,
                      h_net)
    /\ UNCHANGED <<h_milvus_uri, h_embedding_endpoint, h_ollama_base_url,
                   h_net>>
    /\ UNCHANGED <<chunkVars, routerVars, backVars, answerVars, classifyVars,
                   ingestVars, apiVars, authVars, evalVars, chatVars>>

InitHealth ==
    /\ h_milvus_uri \in MilvusUris
    /\ h_embedding_endpoint \in EmbeddingEndpoints
    /\ h_ollama_base_url \in OllamaBaseUrls
    /\ h_net \in NetOutcomes(h_embedding_endpoint, h_ollama_base_url)
    /\ h_ret = NoReadyReport
    /\ IdleChunks
    /\ IdleRouter
    /\ IdleBack
    /\ IdleAnswer
    /\ IdleClassify
    /\ IdleIngest
    /\ IdleApi
    /\ IdleAuth
    /\ IdleEval
    /\ IdleChat

NextHealth == CallReady

SpecHealth == InitHealth /\ [][NextHealth]_vars

----------------------------------------------------------------------------
(* C22 (SpecHealth) *)

Http2xx(status) == 200 <= status /\ status < 300

MilvusDown == Malformed(h_milvus_uri) \/ ~h_net.milvus_tcp
NimDown ==
    /\ ~Http2xx(h_net.nim_http)
    /\ Malformed(h_embedding_endpoint) \/ ~h_net.nim_tcp
OllamaDown == ~Http2xx(h_net.ollama_http)

FailedCheck(k) == Len(h_ret.checks) >= k /\ ~h_ret.checks[k].ok

\* C22: whatever the three URLs and whatever the network answers, ready()
\* raises nothing and returns a report whose ok is true exactly when every
\* check in it is ok, with a check that is not ok for every dependency that
\* is unreachable or whose URL is malformed.
C22_ErrorsReportedNeverThrown ==
    h_ret.called =>
        /\ h_ret.raised = "none"
        /\ Len(h_ret.checks) = 3
        /\ h_ret.ok <=> \A k \in 1..3 : h_ret.checks[k].ok
        /\ MilvusDown => FailedCheck(1)
        /\ NimDown => FailedCheck(2)
        /\ OllamaDown => FailedCheck(3)

\* the same for the calls of ready() that return
C22_ReportWhenReturned ==
    (h_ret.called /\ h_ret.raised = "none") =>
        /\ Len(h_ret.checks) = 3
        /\ h_ret.ok <=> \A k \in 1..3 : h_ret.checks[k].ok
        /\ MilvusDown => FailedCheck(1)
        /\ NimDown => FailedCheck(2)
        /\ OllamaDown => FailedCheck(3)

\* a report with the embedding endpoint malformed and unreachable
C22_WitnessMalformedReported ==
    /\ h_ret.called
    /\ h_ret.raised = "none"
    /\ Malformed(h_embedding_endpoint)
    /\ ~h_ret.ok
    /\ h_ret.checks[2].name = "nim_embedding_http"


----------------------------------------------------------------------------
(* C23, C24, C25 (Spec) *)

RetrieveCalls == CallsOf(a_calls, "retrieve")
GenerateCalls == CallsOf(a_calls, "chain")

\* retrieval has returned and left no chunk
NoContext == Retrieved /\ a_chunk_dicts = <<>>

\* C23: when the normalised chunk list is empty, answer() invokes neither the
\* generation model nor the back-translation, for a query of either language,
\* and ends by returning the fixed sentence as its answer.
C23_NoContextGoesStraightToAnswer ==
    NoContext =>
        /\ a_pc \in {"build", "done", "raised"}
        /\ GenerateCalls = <<>>
        /\ BackTranslations = <<>>
        /\ a_pc \in {"done", "raised"} =>
              /\ a_pc = "done"
              /\ a_ret.value.answer = NoContextAnswer

\* the part of C23 about the calls alone
C23_NoContextInvokesNothing ==
    NoContext =>
        /\ a_pc \in {"build", "done", "raised"}
        /\ GenerateCalls = <<>>
        /\ BackTranslations = <<>>
        /\ a_answer_text = NoContextAnswer

\* the translations of the query into English that were asked for
ToEnglishCalls ==
    LET IsToEn(c) == c.chain = "translate_text"
                     /\ c.input.TARGET_LANG = ENGLISH_LANGUAGE
    IN  SelectSeq(a_calls, IsToEn)

\* routing has returned
Routed == a_user_lang # "none"

\* the retrieval-language query: the caller's for an English query, the
\* translator's stripped answer for a Maltese one
RetrievalLanguageQuery ==
    IF a_user_lang = "mt" THEN Strip(ToEnglishCalls[1].out) ELSE a_query

\* the chunks normalised from what the retriever returned
NormalizedChunks == hits_to_chunks(RetrieveCalls[1].out, a_max_chars).chunks

\* C24: answer() calls the retriever once, with the one-element list of the
\* retrieval-language query and the caller's top_k; when chunks exist it
\* invokes the generation model with that query as question and the stuffed
\* normalised chunks as context; the untranslated Maltese query goes to
\* neither.
C24_RetrievalLanguageQueryOnly ==
    /\ Len(RetrieveCalls) <= 1
    /\ (Routed /\ a_pc # "retrieve") => Len(RetrieveCalls) = 1
    /\ \A k \in 1..Len(RetrieveCalls) :
          /\ RetrieveCalls[k].input =
                [queries |-> <<RetrievalLanguageQuery>>, top_k |-> a_top_k]
          /\ a_user_lang = "mt" => RetrieveCalls[k].input.queries # <<a_query>>
    /\ \A k \in 1..Len(GenerateCalls) :
          /\ Retrieved
          /\ NormalizedChunks # <<>>
          /\ GenerateCalls[k].input =
                [question |-> RetrievalLanguageQuery,
                 context |-> stuff_context(NormalizedChunks)]
          /\ a_user_lang = "mt" => GenerateCalls[k].input.question # a_query
    /\ (Retrieved /\ a_pc # "generate" /\ NormalizedChunks # <<>>) =>
          Len(GenerateCalls) = 1

\* an Answer returned for a Maltese query with top_k = 1 and chunks
C24_Witness ==
    /\ a_pc = "done"
    /\ a_user_lang = "mt"
    /\ a_top_k = 1
    /\ Len(RetrieveCalls) = 1
    /\ Len(GenerateCalls) = 1
    /\ GenerateCalls[1].input.question = <<"q">>

GenerationRaised == a_ret.raised = "GenerationError"

\* C25: the generation chain is invoked at most once per call of answer(),
\* and when that invocation raises answer() ends there: the error is raised
\* to the caller, no Answer is returned (to the caller of answer() or as an
\* HTTP response), and nothing is invoked after the failed call.
C25_GenerationErrorPropagates ==
    /\ Len(GenerateCalls) <= 1
    /\ GenerationRaised =>
          /\ a_pc = "raised"
          /\ a_ret.value = None
          /\ Len(GenerateCalls) = 1
          /\ a_calls[Len(a_calls)].chain = "chain"
          /\ q_pc # "responded"

\* generation raised for a Maltese query that came in over HTTP
C25_Witness ==
    /\ GenerationRaised
    /\ a_user_lang = "mt"
    /\ q_pc = "raised"
    /\ q_ret.raised = "GenerationError"


----------------------------------------------------------------------------
(* C26 (SpecIngest) *)

Ingestions ==
    LET IsIngest(e) == e.event = "ingest" IN SelectSeq(i_attempts, IsIngest)

\* the batches handed to ingestors built with the given heavy_mode, in order
BatchesOfMode(heavy_mode) ==
    LET IsMode(e) == e.heavy_mode = heavy_mode
        es == SelectSeq(Ingestions, IsMode)
    IN  [k \in 1..Len(es) |-> es[k].files]

RECURSIVE FilesOf(_)
FilesOf(batches) ==
    IF batches = <<>> THEN <<>> ELSE Head(batches) \o FilesOf(Tail(batches))

StartOf(part, whole) ==
    Len(part) <= Len(whole) /\ part = SubSeq(whole, 1, Len(part))

\* batches of 1..batch_size files, all full but possibly the last
FullButLast(batches, batch_size) ==
    \A k \in 1..Len(batches) :
        /\ Len(batches[k]) >= 1
        /\ Len(batches[k]) <= batch_size
        /\ k < Len(batches) => Len(batches[k]) = batch_size

NormalBeforeHeavy ==
    \A j, k \in 1..Len(Ingestions) :
        (j < k /\ Ingestions[j].heavy_mode) => Ingestions[k].heavy_mode

SleepBetweenIngestions ==
    i_sleep_seconds > 0 =>
        \A k \in 1..(Len(i_attempts) - 1) :
            ~(i_attempts[k].event = "ingest" /\ i_attempts[k + 1].event = "ingest")

BatchesInOrder ==
    /\ StartOf(FilesOf(BatchesOfMode(FALSE)), i_normal_files)
    /\ StartOf(FilesOf(BatchesOfMode(TRUE)), i_heavy_files)
    /\ FullButLast(BatchesOfMode(FALSE), i_batch_size_normal)
    /\ FullButLast(BatchesOfMode(TRUE), i_batch_size_heavy)
    /\ NormalBeforeHeavy
    /\ SleepBetweenIngestions

IngestOver == i_pc \in {"report", "done", "raised"}

\* C26: the batches handed to the ingestion client are, in order, the normal
\* files cut into consecutive batches of at most batch_size_normal files with
\* heavy_mode off, then the heavy files cut into consecutive batches of at
\* most batch_size_heavy files with heavy_mode on, every batch but the last
\* of its category full, with a sleep between two ingestions when
\* sleep_seconds > 0; and when the run is over every classified file has been
\* handed over in exactly one batch.
C26_EveryFileInOneBatch ==
    ClassifiedForIngest =>
        /\ BatchesInOrder
        /\ IngestOver =>
              /\ FilesOf(BatchesOfMode(FALSE)) = i_normal_files
              /\ FilesOf(BatchesOfMode(TRUE)) = i_heavy_files

\* what holds of the code: the same for positive batch sizes
C26_EveryFileInOneBatchPositiveSizes ==
    (ClassifiedForIngest /\ i_batch_size_normal > 0 /\ i_batch_size_heavy > 0) =>
        /\ BatchesInOrder
        /\ IngestOver =>
              /\ FilesOf(BatchesOfMode(FALSE)) = i_normal_files
              /\ FilesOf(BatchesOfMode(TRUE)) = i_heavy_files

\* eleven normal files in batches of five, five and one, then two heavy
\* files one by one, with a sleep after each
C26_WitnessDefaults ==
    /\ i_pc = "done"
    /\ i_batch_size_normal = DefaultBatchSizeNormal
    /\ i_batch_size_heavy = DefaultBatchSizeHeavy
    /\ i_sleep_seconds > 0
    /\ Len(BatchesOfMode(FALSE)) = 3
    /\ Len(BatchesOfMode(FALSE)[3]) = 1
    /\ Len(BatchesOfMode(TRUE)) = 2
    /\ Len(i_attempts) = 10


----------------------------------------------------------------------------
(* DotNetAuthenticator used over time (SpecAuth) *)

MaxTime == 5

\* the configurations tried: a skew of 0 or 1 second, a fallback TTL of 3
AuthConfigs ==
    {[default_ttl_s |-> 3, refresh_skew_s |-> skew] : skew \in {0, 1}}

\* what the authenticate endpoint may return at time now: a token expiring
\* in 1 or 3 seconds, one that expired a second ago, one without exp
IssuedAt(now) ==
    {JWT(now, now + 1), JWT(now, now + 3), JWT(now, now - 1), OpaqueJWT(now)}

CallGetToken ==
    /\ \E force_refresh \in BOOLEAN, issued \in IssuedAt(t_now) \cup {AuthRaises} :
          LET r == get_token(t_token, t_exp_epoch, t_cfg, t_now,
                             force_refresh, issued)
          IN  /\ t_ret' = r
              /\ t_token' = r.after.token
              /\ t_exp_epoch' = r.after.exp_epoch
    /\ UNCHANGED <<t_now, t_cfg>>
    /\ UNCHANGED <<chunkVars, routerVars, backVars, answerVars, classifyVars,
                   ingestVars, apiVars, healthVars, evalVars, chatVars>>

CallInvalidate ==
    /\ LET r == invalidate(t_token, t_exp_epoch, t_now)
       IN  /\ t_ret' = r
           /\ t_token' = r.after.token
           /\ t_exp_epoch' = r.after.exp_epoch
    /\ UNCHANGED <<t_now, t_cfg>>
    /\ UNCHANGED <<chunkVars, routerVars, backVars, answerVars, classifyVars,
                   ingestVars, apiVars, healthVars, evalVars, chatVars>>

\* a second passes
Tick ==
    /\ t_now < MaxTime
    /\ t_now' = t_now + 1
    /\ UNCHANGED <<t_cfg, t_token, t_exp_epoch, t_ret>>
    /\ UNCHANGED <<chunkVars, routerVars, backVars, answerVars, classifyVars,
                   ingestVars, apiVars, healthVars, evalVars, chatVars>>

InitAuth ==
    /\ t_now = 0
    /\ t_cfg \in AuthConfigs
    /\ t_token = None
    /\ t_exp_epoch = 0
    /\ t_ret = NoAuthCall
    /\ IdleChunks
    /\ IdleRouter
    /\ IdleBack
    /\ IdleAnswer
    /\ IdleClassify
    /\ IdleIngest
    /\ IdleApi
    /\ IdleHealth
    /\ IdleEval
    /\ IdleChat

NextAuth ==
    \/ CallGetToken
    \/ CallInvalidate
    \/ Tick

SpecAuth == InitAuth /\ [][NextAuth]_vars

----------------------------------------------------------------------------
(* C27, C28 (SpecAuth) *)

GotToken == t_ret.op = "get_token"

\* no token cached, or the time is at or past the cached expiry less the skew
CacheStale(call) ==
    \/ call.before.token = None
    \/ call.now >= call.before.exp_epoch - t_cfg.refresh_skew_s

\* C27: get_token calls authenticate exactly when force_refresh is set, no
\* token is cached, or the time is at or past the cached expiry minus
\* refresh_skew_s, and otherwise returns the cached token; a successful
\* authenticate replaces the cached token and expiry by the new ones, one
\* that raises leaves them as they were.
C27_AuthenticateExactlyWhenStale ==
    /\ t_token = t_ret.after.token
    /\ t_exp_epoch = t_ret.after.exp_epoch
    /\ GotToken =>
          /\ t_ret.authenticate # "none" <=>
                (t_ret.force_refresh \/ CacheStale(t_ret))
          /\ t_ret.authenticate = "none" =>
                /\ ~t_ret.raised
                /\ t_ret.ret = t_ret.before.token
                /\ t_ret.after = t_ret.before
          /\ t_ret.authenticate = "returned" =>
                /\ ~t_ret.raised
                /\ t_ret.ret = t_ret.issued
                /\ t_ret.after.token = t_ret.issued
                /\ t_ret.after.exp_epoch =
                      IF HasExp(t_ret.issued) /\ ExpOf(t_ret.issued) > t_ret.now
                      THEN ExpOf(t_ret.issued)
                      ELSE t_ret.now + t_cfg.default_ttl_s
          /\ t_ret.authenticate = "raised" =>
                /\ t_ret.raised
                /\ t_ret.after = t_ret.before
    /\ t_ret.op = "invalidate" =>
          t_ret.after = [token |-> None, exp_epoch |-> 0]

\* a cached token returned one second before the skew makes it stale
C27_Witness ==
    /\ GotToken
    /\ t_ret.authenticate = "none"
    /\ t_cfg.refresh_skew_s = 1
    /\ t_ret.now = t_ret.before.exp_epoch - 2
    /\ t_ret.ret = JWT(0, 3)

\* a token refreshed within the skew of its expiry
C27_WitnessRefreshedInSkew ==
    /\ GotToken
    /\ ~t_ret.force_refresh
    /\ t_ret.authenticate = "returned"
    /\ t_ret.before.token # None
    /\ t_ret.now = t_ret.before.exp_epoch - 1

\* a failed authenticate left the cached token in place
C27_WitnessRaisedKeepsCache ==
    /\ GotToken
    /\ t_ret.authenticate = "raised"
    /\ t_ret.before.token # None
    /\ t_token = t_ret.before.token

\* get_token without force_refresh returned the token it had cached
ReturnedCached ==
    GotToken /\ ~t_ret.force_refresh /\ t_ret.authenticate = "none"

\* C28: get_token without force_refresh never returns a cached token that
\* carries a numeric exp claim at a time later than that exp minus
\* refresh_skew_s.
C28_NeverReturnedPastExp ==
    (ReturnedCached /\ HasExp(t_ret.ret)) =>
        t_ret.now <= ExpOf(t_ret.ret) - t_cfg.refresh_skew_s

\* what holds of the code: the same for tokens received before their exp
C28_NeverReturnedPastExpIfFresh ==
    (ReturnedCached /\ HasExp(t_ret.ret) /\ ExpOf(t_ret.ret) > t_ret.ret[2]) =>
        t_ret.now <= ExpOf(t_ret.ret) - t_cfg.refresh_skew_s


----------------------------------------------------------------------------
(* run_and_save called on a test set, again and again (SpecEval) *)

MaxTestsetRows == 3
MaxRuns == 2

TestsetRows ==
    {[user_input |-> "q1", reference |-> "r1"],
     [user_input |-> "q2", reference |-> Missing],
     [user_input |-> "q3", reference |-> "r3"]}
Testsets == SeqsUpTo(TestsetRows, MaxTestsetRows)

\* what answer() returns for a question when it returns: the same at every
\* call, from two chunks, or for q2 from none
EvalAnswerTo(question) ==
    IF question = "q2"
    THEN [answer |-> NoContextAnswer, retrieval |-> [chunks |-> <<>>]]
    ELSE [answer |-> <<"w">>,
          retrieval |-> [chunks |->
             <<[text |-> <<"a", "b">>, source_name |-> "doc_a",
                page_number |-> "1"],
               [text |-> <<"a">>, source_name |-> "doc_b",
                page_number |-> "None"]>>]]

\* the output file before the first call: absent, empty, or left by an
\* earlier run over q1, or over a question the test set does not hold
EarlierRows ==
    {<<>>,
     <<[question |-> "q1", answer |-> <<"w">>, contexts |-> <<>>,
        ground_truths |-> <<"r1">>]>>,
     <<[question |-> "q4", answer |-> <<"w">>, contexts |-> <<>>,
        ground_truths |-> <<"">>]>>}

\* processed_questions; testset = read_jsonl(testset_path)
EvalStart ==
    /\ e_pc = "start"
    /\ e_processed' = processed_questions(e_resume, e_exists, e_output)
    /\ e_pc' = "loop"
    /\ UNCHANGED <<e_testset, e_resume, e_exists, e_output, e_start_output,
                   e_next, e_calls, e_runs>>
    /\ UNCHANGED <<chunkVars, routerVars, backVars, answerVars, classifyVars,
                   ingestVars, apiVars, healthVars, authVars, chatVars>>

EvalRow == e_testset[e_next + 1]

InLoop == e_pc = "loop" /\ e_next < Len(e_testset)

\* an iteration that skips its row
EvalSkips ==
    /\ InLoop
    /\ AlreadyProcessed(EvalRow.user_input, e_processed)
    /\ e_next' = e_next + 1
    /\ UNCHANGED <<e_pc, e_testset, e_resume, e_exists, e_output,
                   e_start_output, e_processed, e_calls, e_runs>>
    /\ UNCHANGED <<chunkVars, routerVars, backVars, answerVars, classifyVars,
                   ingestVars, apiVars, healthVars, authVars, chatVars>>

\* an iteration in which answer() returns: the row is appended
EvalAnswerReturns ==
    /\ InLoop
    /\ ~AlreadyProcessed(EvalRow.user_input, e_processed)
    /\ e_output' = append_jsonl(e_output,
                                OutputRow(EvalRow,
                                          EvalAnswerTo(EvalRow.user_input)))
    /\ e_exists' = TRUE
    /\ e_calls' = Append(e_calls, EvalRow.user_input)
    /\ e_next' = e_next + 1
    /\ UNCHANGED <<e_pc, e_testset, e_resume, e_start_output, e_processed,
                   e_runs>>
    /\ UNCHANGED <<chunkVars, routerVars, backVars, answerVars, classifyVars,
                   ingestVars, apiVars, healthVars, authVars, chatVars>>

\* an iteration in which answer() raises, or the run is interrupted in it
EvalAnswerRaises ==
    /\ InLoop
    /\ ~AlreadyProcessed(EvalRow.user_input, e_processed)
    /\ e_calls' = Append(e_calls, EvalRow.user_input)
    /\ e_pc' = "raised"
    /\ UNCHANGED <<e_testset, e_resume, e_exists, e_output, e_start_output,
                   e_processed, e_next, e_runs>>
    /\ UNCHANGED <<chunkVars, routerVars, backVars, answerVars, classifyVars,
                   ingestVars, apiVars, healthVars, authVars, chatVars>>

\* the loop has passed every row
EvalEnds ==
    /\ e_pc = "loop"
    /\ e_next = Len(e_testset)
    /\ e_pc' = "done"
    /\ UNCHANGED <<e_testset, e_resume, e_exists, e_output, e_start_output,
                   e_processed, e_next, e_calls, e_runs>>
    /\ UNCHANGED <<chunkVars, routerVars, backVars, answerVars, classifyVars,
                   ingestVars, apiVars, healthVars, authVars, chatVars>>

\* run_and_save called again with the same arguments
EvalRunAgain ==
    /\ e_pc \in {"done", "raised"}
    /\ e_runs < MaxRuns
    /\ e_pc' = "start"
    /\ e_runs' = e_runs + 1
    /\ e_start_output' = e_output
    /\ e_processed' = {}
    /\ e_next' = 0
    /\ e_calls' = <<>>
    /\ UNCHANGED <<e_testset, e_resume, e_exists, e_output>>
    /\ UNCHANGED <<chunkVars, routerVars, backVars, answerVars, classifyVars,
                   ingestVars, apiVars, healthVars, authVars, chatVars>>

InitEval ==
    /\ e_pc = "start"
    /\ e_testset \in Testsets
    /\ e_resume \in BOOLEAN
    /\ e_exists \in BOOLEAN
    /\ e_output \in (IF e_exists THEN EarlierRows ELSE {<<>>})
    /\ e_start_output = e_output
    /\ e_processed = {}
    /\ e_next = 0
    /\ e_calls = <<>>
    /\ e_runs = 1
    /\ IdleChunks
    /\ IdleRouter
    /\ IdleBack
    /\ IdleAnswer
    /\ IdleClassify
    /\ IdleIngest
    /\ IdleApi
    /\ IdleHealth
    /\ IdleAuth
    /\ IdleChat

NextEval ==
    \/ EvalStart
    \/ EvalSkips
    \/ EvalAnswerReturns
    \/ EvalAnswerRaises
    \/ EvalEnds
    \/ EvalRunAgain

SpecEval == InitEval /\ [][NextEval]_vars

----------------------------------------------------------------------------
(* C29 (SpecEval) *)

\* the questions with a row in the output file when the run started
StartQuestions == QuestionsOf(e_start_output)

\* the rows among the first n of the test set that have no such row
RECURSIVE RemainingRows(_)
RemainingRows(n) ==
    IF n = 0 THEN <<>>
    ELSE IF e_testset[n].user_input \in StartQuestions
    THEN RemainingRows(n - 1)
    ELSE Append(RemainingRows(n - 1), e_testset[n])

\* the rows this run has appended so far
AppendedRows == SubSeq(e_output, Len(e_start_output) + 1, Len(e_output))

EvalRunning == e_pc \in {"loop", "done", "raised"}

\* the rows the loop has dealt with: those passed, and the one in which
\* answer() raised
RowsReached == IF e_pc = "raised" THEN e_next + 1 ELSE e_next

C29_WitnessResumed ==
    /\ e_resume
    /\ e_runs = 2
    /\ e_pc = "done"
    /\ Len(e_start_output) = 1
    /\ e_start_output[1].question = "q2"
    /\ e_calls = <<"q1", "q3">>
    /\ Len(e_output) = 3


----------------------------------------------------------------------------
(* _generate called on every response of the bounds (SpecChat) *)

MaxResponseLen == 4

ResponseAlphabet == {"<think>", "<THINK>", "</think>", " ", "w"}
Responses == SeqsUpTo(ResponseAlphabet, MaxResponseLen) \cup {None}
StopValues == {None, <<<<"w">>>>}

CallGenerate ==
    /\ d_ret = NoMessage
    /\ d_ret' = generate(d_response, d_stop)
    /\ UNCHANGED <<d_response, d_stop>>
    /\ UNCHANGED <<chunkVars, routerVars, backVars, answerVars, classifyVars,
                   ingestVars, apiVars, healthVars, authVars, evalVars>>

InitChat ==
    /\ d_response \in Responses
    /\ d_stop \in StopValues
    /\ d_ret = NoMessage
    /\ IdleChunks
    /\ IdleRouter
    /\ IdleBack
    /\ IdleAnswer
    /\ IdleClassify
    /\ IdleIngest
    /\ IdleApi
    /\ IdleHealth
    /\ IdleAuth
    /\ IdleEval

NextChat == CallGenerate

SpecChat == InitChat /\ [][NextChat]_vars

----------------------------------------------------------------------------
(* C30 (SpecChat) *)

\* _generate has returned for a call without stop sequences
GeneratedNoStop == d_ret # NoMessage /\ d_stop = None

Trimmed == Strip(OrElse(d_response, <<>>))

HasThinkTag(text) ==
    \E k \in 1..Len(text) : IsThinkOpen(text[k]) \/ IsThinkClose(text[k])

\* the reasoning carried by the message, "" when it carries none
CarriedReasoning ==
    IF "reasoning_content" \in DOMAIN d_ret.additional_kwargs
    THEN d_ret.additional_kwargs.reasoning_content
    ELSE <<>>

\* the message is the split of the trimmed response at its first </think>:
\* reasoning the trimmed text before it (after the <think> that opens the
\* response, if one does), content the trimmed text after it; without a
\* </think> the content is the trimmed response; reasoning_content is there
\* only when the reasoning is not empty
SplitAtFirstClose ==
    LET j == FirstThinkClose(Trimmed)
        from == IF IsThinkOpen(Trimmed[1]) THEN 2 ELSE 1
    IN  /\ "reasoning_content" \in DOMAIN d_ret.additional_kwargs =>
              d_ret.additional_kwargs.reasoning_content # <<>>
        /\ IF ThinkCloses(Trimmed) = {}
           THEN d_ret.content = Trimmed /\ CarriedReasoning = <<>>
           ELSE /\ CarriedReasoning = Strip(SubSeq(Trimmed, from, j - 1))
                /\ d_ret.content = Strip(SubSeq(Trimmed, j + 1, Len(Trimmed)))

\* C30: the message is the split of the trimmed response by its think
\* delimiters (reasoning between <think> and the first </think>, or before a
\* lone </think>; content after it; the whole trimmed response without
\* them), reasoning_content is carried only when the reasoning is not empty,
\* and whenever a reasoning was extracted the content holds no think
\* delimiter.
C30_ThinkBlockSplitOff ==
    GeneratedNoStop =>
        /\ SplitAtFirstClose
        /\ CarriedReasoning # <<>> => ~HasThinkTag(d_ret.content)

\* what holds of the code: the split alone
C30_SplitAtFirstClose == GeneratedNoStop => SplitAtFirstClose

\* the content holds no think delimiter when the response holds one </think>
\* and no <think> after it
C30_OneBlockSplitOff ==
    (GeneratedNoStop /\ Cardinality(ThinkCloses(Trimmed)) = 1
       /\ \A k \in 1..Len(Trimmed) :
             IsThinkOpen(Trimmed[k]) => k < FirstThinkClose(Trimmed)) =>
        ~HasThinkTag(d_ret.content)

====
